---- MODULE Spec2Model ----
(***************************************************************************)
(* Trade simulator and metrics calculator of the backtesting pipeline      *)
(* (src/src/backtest_engine.py, src/src/results_analyzer.py,               *)
(* src/src/detailed_analysis.py).                                          *)
(*                                                                         *)
(* Numbers.  Prices, percentages and ratios are exact rationals <<n, d>>   *)
(* with d > 0, in lowest terms.  Money amounts (pnl, capital) are integers *)
(* in minor units: the products capital * position_size and               *)
(* risk_amount * pnl_pct are rounded to a whole minor unit (RoundMoney),   *)
(* which stands for the rounding of each float multiplication and keeps    *)
(* compounding inside the integer range.                                   *)
(* numpy/pandas float results that can be non-finite are records           *)
(* [kind, val] with kind in {"finite", "nan", "inf", "-inf"}.              *)
(***************************************************************************)
EXTENDS Integers, Sequences, FiniteSets, TLC

VARIABLES
    initial_capital,  \* BacktestEngine.initial_capital (minor units)
    strategy_id,      \* argument of run_backtest
    df,               \* argument of run_backtest: the bar series
    generation,       \* whether strategy.generate_signals(df, asset) "returns"
                      \* or "raises"
    signals,          \* the table generate_signals returns
    pc,               \* position inside the call
    i,                \* index of the next signal of the for loop
    capital,          \* local variable capital of run_backtest
    trades,           \* local variable trades of run_backtest
    result,           \* the value the call returned
    metrics,          \* value returned by a metrics calculation
    registry,         \* StrategyRegistry._strategies: id -> registered entry
    parameters,       \* the parameters of a strategy instance / the overrides
    position,         \* the latch of a signal generator's loop
    classifier,       \* SignalClassifier: is_trained and its predictions
    original_signals, \* the signals of the wrapped (inner) generator
    response,         \* what the backtest endpoint answered
    cache,            \* api/cache.py _cache: key -> data
    calls,            \* the calls made on the shared engine / the requests of
                      \* the endpoint, with what each was asked and answered
    original_strategies \* local variable of run_backtest_legacy

engineVars == <<initial_capital, strategy_id, df, generation, signals, pc, i, capital,
                trades, result, metrics>>

extVars == <<registry, parameters, position, classifier, original_signals, response,
             cache, calls, original_strategies>>

vars == <<engineVars, extVars>>

-----------------------------------------------------------------------------
(* Bounds of the model *)

MaxBars == 3
MaxSignals == 2
MaxTrades == 3

-----------------------------------------------------------------------------
(* Float arithmetic on exact rationals *)

Abs(x) == IF x < 0 THEN -x ELSE x

RECURSIVE GCD(_, _)
GCD(a, b) == IF b = 0 THEN a ELSE GCD(b, a % b)

Rat(n, d) ==
    LET s == IF d < 0 THEN -1 ELSE 1
        g == GCD(Abs(n), Abs(d))
    IN  <<(s * n) \div g, (s * d) \div g>>

F(x) == <<x, 1>>

RAdd(a, b) == Rat(a[1] * b[2] + b[1] * a[2], a[2] * b[2])
RSub(a, b) == Rat(a[1] * b[2] - b[1] * a[2], a[2] * b[2])
RMul(a, b) == Rat(a[1] * b[1], a[2] * b[2])
RDiv(a, b) == Rat(a[1] * b[2], a[2] * b[1])

\* Order of a/b and c/d for a, c >= 0 and b, d > 0 (-1, 0 or 1), by their
\* continued fractions, so that no product leaves the integer range.
RECURSIVE CmpPos(_, _, _, _)
CmpPos(a, b, c, d) ==
    LET q1 == a \div b
        q2 == c \div d
        r1 == a % b
        r2 == c % d
    IN  IF q1 # q2 THEN (IF q1 < q2 THEN -1 ELSE 1)
        ELSE IF r1 = 0 /\ r2 = 0 THEN 0
        ELSE IF r1 = 0 THEN -1
        ELSE IF r2 = 0 THEN 1
        ELSE -CmpPos(b, r1, d, r2)

RCmp(a, b) ==
    IF a[1] >= 0 /\ b[1] >= 0 THEN CmpPos(a[1], a[2], b[1], b[2])
    ELSE IF a[1] < 0 /\ b[1] < 0 THEN CmpPos(-b[1], b[2], -a[1], a[2])
    ELSE IF a[1] < 0 THEN -1 ELSE 1

RLe(a, b) == RCmp(a, b) <= 0
RLt(a, b) == RCmp(a, b) < 0
RGe(a, b) == RCmp(a, b) >= 0

RoundMoney(r) == r[1] \div r[2]

-----------------------------------------------------------------------------
(* Risk configuration of run_backtest *)

position_size == <<1, 10>>
stop_loss_pct == <<5, 1000>>
take_profit_pct == <<1, 100>>
commission == <<1, 1000>>
slippage == <<5, 10000>>

One == <<1, 1>>

-----------------------------------------------------------------------------
(* Inputs *)

\* Bar shapes around an entry price of 1000: a quiet bar, a bar whose range
\* reaches both sides, a bar that only rises and a bar that only falls.
BarShapes ==
    { [open |-> 1000, high |-> 1003, low |-> 998,  close |-> 1002],
      [open |-> 1001, high |-> 1010, low |-> 990,  close |-> 1000],
      [open |-> 1000, high |-> 1010, low |-> 1000, close |-> 1008],
      [open |-> 1000, high |-> 1000, low |-> 990,  close |-> 993] }

EntryPrices == {1000}

\* The index of df is strictly increasing: bar k carries timestamp k.
BarSeries ==
    UNION { { [k \in 1..n |-> [ts |-> k, open |-> s[k].open, high |-> s[k].high,
                               low |-> s[k].low, close |-> s[k].close]]
              : s \in [1..n -> BarShapes] } : n \in 0..MaxBars }

SignalRows == [timestamp : 1..MaxBars, signal : {"LONG", "SHORT"}, price : EntryPrices]

\* Signal tables: at most one signal per bar, in bar order.
SignalTables ==
    UNION { { s \in [1..n -> SignalRows] :
                \A a, b \in 1..n : a < b => s[a].timestamp < s[b].timestamp }
            : n \in 0..MaxSignals }

RegisteredIds == {"vwap_ib", "sma_crossover", "rsi_oversold", "mean_reversion"}
\* main.py:30 passes its signal table where the strategy id is expected; the
\* model names such an argument by its type.
StrategyIds == {"vwap_ib", "no_such_strategy", "DataFrame"}

\* BacktestEngine(initial_capital) and the callers that assign the field
\* accept any number.
InitialCapitals == {-2000000, 0, 2000000}

NoResult == [pending |-> TRUE]
NoMetrics == [pending |-> TRUE]

-----------------------------------------------------------------------------
(* run_backtest: one iteration of the signal loop *)

\* Stop-loss and take-profit prices of a signal.
StopPrice(sig) ==
    IF sig.signal = "LONG"
    THEN RMul(F(sig.price), RSub(One, stop_loss_pct))
    ELSE RMul(F(sig.price), RAdd(One, stop_loss_pct))

TargetPrice(sig) ==
    IF sig.signal = "LONG"
    THEN RMul(F(sig.price), RAdd(One, take_profit_pct))
    ELSE RMul(F(sig.price), RSub(One, take_profit_pct))

\* exit_data = df[df.index > entry_time]
ExitDataFromEntryBar(bars, entry_time) == SelectSeq(bars, LAMBDA b : b.ts >= entry_time)

ExitData(bars, entry_time) == SelectSeq(bars, LAMBDA b : b.ts > entry_time)

StopHit(sig, row, stop) ==
    \/ sig.signal = "LONG" /\ RLe(F(row.low), stop)
    \/ sig.signal = "SHORT" /\ RGe(F(row.high), stop)

TargetHit(sig, row, target) ==
    \/ sig.signal = "LONG" /\ RGe(F(row.high), target)
    \/ sig.signal = "SHORT" /\ RLe(F(row.low), target)

\* The if / elif chain of the scan on one bar: stop before target.
BarOutcomeTargetFirst(sig, row, stop, target) ==
    IF TargetHit(sig, row, target) THEN "take_profit"
    ELSE IF StopHit(sig, row, stop) THEN "stop_loss"
    ELSE "none"

BarOutcome(sig, row, stop, target) ==
    IF StopHit(sig, row, stop) THEN "stop_loss"
    ELSE IF TargetHit(sig, row, target) THEN "take_profit"
    ELSE "none"

\* The exit a breach on bar `row` yields.
BreachExit(outcome, row, stop, target) ==
    [exit_price    |-> IF outcome = "stop_loss" THEN stop ELSE target,
     exit_reason   |-> outcome,
     exit_time_idx |-> row.ts]

\* The defaults set before the scan: exit at the next bar's open.
DefaultExit(exit_data) ==
    [exit_price    |-> F(exit_data[1].open),
     exit_reason   |-> "time_exit",
     exit_time_idx |-> exit_data[1].ts]

\* The last row without a breach: exit at its close.
EndOfDataExitAtOpen(row) ==
    [exit_price    |-> F(row.open),
     exit_reason   |-> "time_exit",
     exit_time_idx |-> row.ts]

EndOfDataExit(row) ==
    [exit_price    |-> F(row.close),
     exit_reason   |-> "end_of_data",
     exit_time_idx |-> row.ts]

\* The for loop over exit_data from row k on; acc holds exit_price,
\* exit_reason and exit_time_idx as assigned so far.  A breach breaks out of
\* the loop; the last row without a breach assigns the end_of_data exit.
RECURSIVE ScanExit(_, _, _, _, _, _)
ScanExit(sig, stop, target, exit_data, k, acc) ==
    IF k > Len(exit_data) THEN acc
    ELSE LET row     == exit_data[k]
             outcome == BarOutcome(sig, row, stop, target)
         IN  IF outcome # "none"
             THEN BreachExit(outcome, row, stop, target)
             ELSE IF row.ts = exit_data[Len(exit_data)].ts
             THEN ScanExit(sig, stop, target, exit_data, k + 1, EndOfDataExit(row))
             ELSE ScanExit(sig, stop, target, exit_data, k + 1, acc)

\* Apply slippage: against the position.
ApplySlippageFavourable(side, price) ==
    IF side = "LONG"
    THEN RMul(price, RAdd(One, slippage))
    ELSE RMul(price, RSub(One, slippage))

ApplySlippage(side, price) ==
    IF side = "LONG"
    THEN RMul(price, RSub(One, slippage))
    ELSE RMul(price, RAdd(One, slippage))

\* P&L fraction with the round-trip commission.
PnlPctOneWayCommission(side, entry_price, exit_price) ==
    RSub(IF side = "LONG"
         THEN RDiv(RSub(exit_price, entry_price), entry_price)
         ELSE RDiv(RSub(entry_price, exit_price), entry_price),
         commission)

PnlPct(side, entry_price, exit_price) ==
    RSub(IF side = "LONG"
         THEN RDiv(RSub(exit_price, entry_price), entry_price)
         ELSE RDiv(RSub(entry_price, exit_price), entry_price),
         RMul(commission, F(2)))

\* risk_amount = capital * position_size; pnl = risk_amount * pnl_pct
RiskAmount(cap) == RoundMoney(RMul(F(cap), position_size))

PnlOnStartingCapital(cap, pnl_pct) ==
    RoundMoney(RMul(F(RiskAmount(initial_capital)), pnl_pct))

Pnl(cap, pnl_pct) == RoundMoney(RMul(F(RiskAmount(cap)), pnl_pct))

\* The trade record built for a signal that has bars after it.
TradeOf(sig, bars, cap) ==
    LET stop_price   == StopPrice(sig)
        target_price == TargetPrice(sig)
        exit_data    == ExitData(bars, sig.timestamp)
        exit         == ScanExit(sig, stop_price, target_price, exit_data, 1,
                                 DefaultExit(exit_data))
        exit_price   == ApplySlippage(sig.signal, exit.exit_price)
        pnl_pct      == PnlPct(sig.signal, F(sig.price), exit_price)
        pnl          == Pnl(cap, pnl_pct)
    IN  [entry_time   |-> sig.timestamp,
         exit_time    |-> exit.exit_time_idx,
         signal       |-> sig.signal,
         entry_price  |-> F(sig.price),
         exit_price   |-> exit_price,
         exit_reason  |-> exit.exit_reason,
         pnl          |-> pnl,
         pnl_pct      |-> pnl_pct,
         capital      |-> cap + pnl,
         stop_price   |-> stop_price,
         target_price |-> target_price]

-----------------------------------------------------------------------------
(* numpy / pandas float results *)

Fin(r) == [kind |-> "finite", val |-> r]
NaN == [kind |-> "nan", val |-> <<0, 1>>]
PosInf == [kind |-> "inf", val |-> <<1, 1>>]
NegInf == [kind |-> "-inf", val |-> <<-1, 1>>]

\* numpy float division: a zero divisor yields nan or an infinity, no error.
NpDiv(a, b) ==
    IF b[1] # 0 THEN Fin(RDiv(a, b))
    ELSE IF a[1] = 0 THEN NaN
    ELSE IF a[1] > 0 THEN PosInf
    ELSE NegInf

EmptyDict == <<>>

RECURSIVE SumSeq(_)
SumSeq(s) == IF s = <<>> THEN 0 ELSE s[1] + SumSeq(Tail(s))

RECURSIVE MaxSeq(_)
MaxSeq(s) == IF Len(s) = 1 THEN s[1]
             ELSE LET m == MaxSeq(Tail(s)) IN IF s[1] >= m THEN s[1] ELSE m

RECURSIVE MinSeq(_)
MinSeq(s) == IF Len(s) = 1 THEN s[1]
             ELSE LET m == MinSeq(Tail(s)) IN IF s[1] <= m THEN s[1] ELSE m

RECURSIVE RMinSeq(_)
RMinSeq(s) == IF Len(s) = 1 THEN s[1]
              ELSE LET m == RMinSeq(Tail(s)) IN IF RLe(s[1], m) THEN s[1] ELSE m

RECURSIVE RMaxSeq(_)
RMaxSeq(s) == IF Len(s) = 1 THEN s[1]
              ELSE LET m == RMaxSeq(Tail(s)) IN IF RGe(s[1], m) THEN s[1] ELSE m

PnlColumn(ts) == [k \in 1..Len(ts) |-> ts[k].pnl]
CapitalColumn(ts) == [k \in 1..Len(ts) |-> ts[k].capital]

\* df[df['pnl'] > 0]['pnl'] and df[df['pnl'] < 0]['pnl']
WinningPnl(ts) == SelectSeq(PnlColumn(ts), LAMBDA x : x > 0)
LosingPnl(ts) == SelectSeq(PnlColumn(ts), LAMBDA x : x < 0)

MeanOrZero(s) == IF Len(s) > 0 THEN Rat(SumSeq(s), Len(s)) ELSE F(0)

\* analyze_trades_detailed: abs(wins.sum() / losses.sum()) if there is a
\* loss, else float('inf')
DetailedProfitFactor(ts) ==
    IF Len(LosingPnl(ts)) > 0
    THEN LET q == NpDiv(F(SumSeq(WinningPnl(ts))), F(SumSeq(LosingPnl(ts))))
         IN  IF q.kind = "finite" THEN Fin(<<Abs(q.val[1]), q.val[2]>>)
             ELSE IF q.kind = "nan" THEN NaN ELSE PosInf
    ELSE PosInf

\* abs(wins.sum() / losses.sum()) if there is a loss and the sum of the
\* losses is not 0, else float('inf')
ProfitFactorSigned(ts) ==
    IF Len(LosingPnl(ts)) > 0 /\ SumSeq(LosingPnl(ts)) # 0
    THEN Fin(RDiv(F(SumSeq(WinningPnl(ts))), F(SumSeq(LosingPnl(ts)))))
    ELSE PosInf

ProfitFactor(ts) ==
    IF Len(LosingPnl(ts)) > 0 /\ SumSeq(LosingPnl(ts)) # 0
    THEN LET q == RDiv(F(SumSeq(WinningPnl(ts))), F(SumSeq(LosingPnl(ts))))
         IN  Fin(<<Abs(q[1]), q[2]>>)
    ELSE PosInf

\* equity_curve.expanding().max() / df['capital'].cummax()
RollingMax(curve) == [k \in 1..Len(curve) |-> MaxSeq(SubSeq(curve, 1, k))]

\* drawdowns = (equity_curve - rolling_max) / rolling_max; drawdowns.min()
EngineMaxDrawdown(ts) ==
    LET curve == CapitalColumn(ts)
        peak  == RollingMax(curve)
    IN  RMinSeq([k \in 1..Len(curve) |-> Rat(curve[k] - peak[k], peak[k])])

\* (cumulative_max - capital) / cumulative_max; .max()
DetailedMaxDrawdown(ts) ==
    LET curve == CapitalColumn(ts)
        peak  == RollingMax(curve)
    IN  RMaxSeq([k \in 1..Len(curve) |-> Rat(peak[k] - curve[k], peak[k])])

\* equity_curve.pct_change().dropna()
DailyReturns(ts) ==
    LET curve == CapitalColumn(ts)
    IN  [k \in 1..(Len(curve) - 1) |-> Rat(curve[k + 1] - curve[k], curve[k])]

\* The standard deviation of the returns is 0 exactly when they are all
\* equal; their mean is then that common value.
ZeroStd(rs) == \A a, b \in 1..Len(rs) : rs[a] = rs[b]

\* mean / std * sqrt(252) when there are at least 2 returns, else 0.  Only
\* the kind of the float is kept: "zero", "finite", "nan", "inf" or "-inf".
SharpeRatio(ts) ==
    LET rs == DailyReturns(ts)
    IN  IF Len(rs) > 1
        THEN IF ZeroStd(rs) THEN NpDiv(rs[1], F(0)).kind ELSE "finite"
        ELSE "zero"

\* BacktestEngine._calculate_performance_metrics
CalculatePerformanceMetrics(ts, init_cap) ==
    IF ts = <<>> THEN EmptyDict
    ELSE [total_return  |-> NpDiv(F(ts[Len(ts)].capital - init_cap), F(init_cap)),
          total_trades  |-> Len(ts),
          win_rate      |-> Rat(Len(WinningPnl(ts)), Len(ts)),
          avg_win       |-> MeanOrZero(WinningPnl(ts)),
          avg_loss      |-> MeanOrZero(LosingPnl(ts)),
          profit_factor |-> ProfitFactor(ts),
          max_drawdown  |-> EngineMaxDrawdown(ts),
          sharpe_ratio  |-> SharpeRatio(ts)]

\* ResultsAnalyzer.calculate_metrics
CalculateMetrics(ts) ==
    IF ts = <<>> THEN EmptyDict
    ELSE [total_trades     |-> Len(ts),
          total_return     |-> SumSeq(PnlColumn(ts)),
          total_return_pct |-> NpDiv(F(ts[Len(ts)].capital - ts[1].capital),
                                     F(ts[1].capital)),
          win_rate         |-> Rat(Len(WinningPnl(ts)), Len(ts)),
          avg_win          |-> MeanOrZero(WinningPnl(ts)),
          avg_loss         |-> MeanOrZero(LosingPnl(ts)),
          profit_factor    |-> ProfitFactor(ts),
          largest_win      |-> MaxSeq(PnlColumn(ts)),
          largest_loss     |-> MinSeq(PnlColumn(ts))]

\* analyze_trades_detailed
AnalyzeTradesDetailed(ts) ==
    IF ts = <<>> THEN EmptyDict
    ELSE [total_trades  |-> Len(ts),
          win_rate      |-> Rat(Len(WinningPnl(ts)), Len(ts)),
          avg_win       |-> MeanOrZero(WinningPnl(ts)),
          avg_loss      |-> MeanOrZero(LosingPnl(ts)),
          profit_factor |-> DetailedProfitFactor(ts),
          max_drawdown  |-> DetailedMaxDrawdown(ts)]

-----------------------------------------------------------------------------
(* BacktestEngine.run_backtest as a state machine *)

\* The parts of the system a run of the engine alone does not touch.
Unused == "unused"
NoResponse == [pending |-> TRUE]

ExtInit ==
    /\ registry = Unused
    /\ parameters = Unused
    /\ position = Unused
    /\ classifier = Unused
    /\ original_signals = <<>>
    /\ response = NoResponse
    /\ cache = <<>>
    /\ calls = Unused
    /\ original_strategies = Unused

\* An exception that leaves run_backtest.
Propagated == [raised |-> "Exception"]

\* Lines 158-159: except Exception as e: return {"error": ...}
StrategyError == [error |-> "Strategy error"]
NoSignalsError == [error |-> "No signals generated"]

Init ==
    /\ initial_capital \in InitialCapitals
    /\ strategy_id \in StrategyIds
    /\ df \in BarSeries
    /\ \/ /\ generation = "returns"
          /\ signals \in { s \in SignalTables :
                             \A k \in 1..Len(s) : s[k].timestamp <= Len(df) }
       \/ /\ generation = "raises"
          /\ signals = <<>>
    /\ pc = "start"
    /\ i = 0
    /\ capital = 0
    /\ trades = <<>>
    /\ result = NoResult
    /\ metrics = NoMetrics
    /\ ExtInit

\* A call that appends to the trades an earlier call left behind.
StartKeepsTrades ==
    /\ pc = "start"
    /\ IF strategy_id \notin RegisteredIds \/ generation = "raises"
       THEN /\ result' = StrategyError
            /\ pc' = "done"
            /\ UNCHANGED <<i, capital, trades>>
       ELSE IF signals = <<>>
       THEN /\ result' = NoSignalsError
            /\ pc' = "done"
            /\ UNCHANGED <<i, capital, trades>>
       ELSE /\ trades' = trades
            /\ capital' = initial_capital
            /\ i' = 1
            /\ pc' = "loop"
            /\ UNCHANGED result
    /\ UNCHANGED <<initial_capital, strategy_id, df, generation, signals, metrics>>
    /\ UNCHANGED extVars

\* Lines 11-31: the strategy lookup (an unknown id raises), the signal
\* generation (may raise), the empty-signals return, and the set-up of the
\* loop.  Every exception is turned into an error result by the handler.
Start ==
    /\ pc = "start"
    /\ IF strategy_id \notin RegisteredIds \/ generation = "raises"
       THEN /\ result' = StrategyError
            /\ pc' = "done"
            /\ UNCHANGED <<i, capital, trades>>
       ELSE IF signals = <<>>
       THEN /\ result' = NoSignalsError
            /\ pc' = "done"
            /\ UNCHANGED <<i, capital, trades>>
       ELSE /\ trades' = <<>>
            /\ capital' = initial_capital
            /\ i' = 1
            /\ pc' = "loop"
            /\ UNCHANGED result
    /\ UNCHANGED <<initial_capital, strategy_id, df, generation, signals, metrics>>
    /\ UNCHANGED extVars

\* Lines 33-144: one iteration of the loop over the signals.
SignalStep ==
    /\ pc = "loop"
    /\ i <= Len(signals)
    /\ LET sig == signals[i] IN
         IF capital <= 0
         THEN \* break
              /\ pc' = "metrics"
              /\ UNCHANGED <<i, capital, trades>>
         ELSE IF ExitData(df, sig.timestamp) = <<>>
         THEN \* continue
              /\ i' = i + 1
              /\ pc' = IF i + 1 > Len(signals) THEN "metrics" ELSE "loop"
              /\ UNCHANGED <<capital, trades>>
         ELSE LET trade_data == TradeOf(sig, df, capital) IN
              /\ capital' = trade_data.capital
              /\ trades' = Append(trades, trade_data)
              /\ i' = i + 1
              /\ pc' = IF i + 1 > Len(signals) THEN "metrics" ELSE "loop"
    /\ UNCHANGED <<initial_capital, strategy_id, df, generation, signals, result, metrics>>
    /\ UNCHANGED extVars

\* Lines 146-159: the metrics and the result.  With no trade capital and
\* initial_capital are Python numbers, and the division by an
\* initial_capital of 0 raises ZeroDivisionError, which the handler turns
\* into an error result.
Finish ==
    /\ pc = "metrics"
    /\ LET performance_metrics ==
               CalculatePerformanceMetrics(trades, initial_capital)
       IN  /\ metrics' = [by |-> "engine", value |-> performance_metrics]
           /\ result' =
                IF initial_capital = 0 /\ trades = <<>>
                THEN StrategyError
                ELSE [trades              |-> trades,
                      total_trades        |-> Len(trades),
                      final_capital       |-> capital,
                      total_return        |-> NpDiv(F(capital - initial_capital),
                                                    F(initial_capital)),
                      strategy_id         |-> strategy_id,
                      performance_metrics |-> performance_metrics]
    /\ pc' = "done"
    /\ UNCHANGED <<initial_capital, strategy_id, df, generation, signals, i, capital, trades>>
    /\ UNCHANGED extVars

Next == Start \/ SignalStep \/ Finish

\* The test the callers of run_backtest apply to its result:
\* if "error" in results
CallerSeesError(r) == "error" \in DOMAIN r

Spec == Init /\ [][Next]_vars

-----------------------------------------------------------------------------
(* The metrics calculations on trade lists *)

PnlValues == {-50, -25, 0, 100, 200}
StartingCapitals == {100}

\* The trades of a list carry the running capital: capital after trade k is
\* the capital before it plus its pnl, and it stays positive.
RECURSIVE RunningCapital(_, _, _)
RunningCapital(c0, pnls, k) ==
    IF k = 0 THEN c0 ELSE RunningCapital(c0, pnls, k - 1) + pnls[k]

TradeList(c0, pnls) ==
    [k \in 1..Len(pnls) |-> [pnl |-> pnls[k], capital |-> RunningCapital(c0, pnls, k)]]

MetricsInit ==
    /\ initial_capital \in StartingCapitals
    /\ \E n \in 0..MaxTrades : \E pnls \in [1..n -> PnlValues] :
         /\ \A k \in 1..n : RunningCapital(initial_capital, pnls, k) > 0
         /\ trades = TradeList(initial_capital, pnls)
    /\ strategy_id = "vwap_ib"
    /\ df = <<>>
    /\ generation = "returns"
    /\ signals = <<>>
    /\ pc = "input"
    /\ i = 0
    /\ capital = 0
    /\ result = NoResult
    /\ metrics = NoMetrics
    /\ ExtInit

EngineMetrics ==
    /\ pc = "input"
    /\ metrics' = [by |-> "engine",
                   value |-> CalculatePerformanceMetrics(trades, initial_capital)]
    /\ pc' = "done"
    /\ UNCHANGED <<initial_capital, strategy_id, df, generation, signals, i, capital, trades, result>>
    /\ UNCHANGED extVars

AnalyzerMetrics ==
    /\ pc = "input"
    /\ metrics' = [by |-> "analyzer", value |-> CalculateMetrics(trades)]
    /\ pc' = "done"
    /\ UNCHANGED <<initial_capital, strategy_id, df, generation, signals, i, capital, trades, result>>
    /\ UNCHANGED extVars

DetailedMetrics ==
    /\ pc = "input"
    /\ metrics' = [by |-> "detailed", value |-> AnalyzeTradesDetailed(trades)]
    /\ pc' = "done"
    /\ UNCHANGED <<initial_capital, strategy_id, df, generation, signals, i, capital, trades, result>>
    /\ UNCHANGED extVars

MetricsNext == EngineMetrics \/ AnalyzerMetrics \/ DetailedMetrics

MetricsSpec == MetricsInit /\ [][MetricsNext]_vars

-----------------------------------------------------------------------------
(* Properties of the trade simulator *)

\* The signal a trade was opened for, and the bars after its entry.
SignalOfTrade(t) == [timestamp |-> t.entry_time, signal |-> t.signal, price |-> t.entry_price[1]]
BarsAfter(ts) == SelectSeq(df, LAMBDA b : b.ts > ts)
StopBreached(t, b) == StopHit(SignalOfTrade(t), b, StopPrice(SignalOfTrade(t)))
TargetBreached(t, b) == TargetHit(SignalOfTrade(t), b, TargetPrice(SignalOfTrade(t)))
Breached(t, b) == StopBreached(t, b) \/ TargetBreached(t, b)
FirstBreach(t, later, k) ==
    /\ Breached(t, later[k])
    /\ \A j \in 1..(k - 1) : ~Breached(t, later[j])

\* C1: every trade exits on the first bar after its entry, in bar order, on
\* which the stop or the target is breached; when both are breached on that
\* bar the exit reason is stop_loss and the exit price is the stop price
\* (then slipped), not the target price.
C1_FirstBreachStopWins ==
    \A n \in 1..Len(trades) :
        LET t     == trades[n]
            later == BarsAfter(t.entry_time)
        IN  \A k \in 1..Len(later) :
                FirstBreach(t, later, k) =>
                    /\ t.exit_time = later[k].ts
                    /\ t.exit_reason \in {"stop_loss", "take_profit"}
                    /\ t.exit_reason = "stop_loss" <=> StopBreached(t, later[k])
                    /\ (StopBreached(t, later[k]) /\ TargetBreached(t, later[k])) =>
                          /\ t.exit_reason = "stop_loss"
                          /\ t.exit_price = ApplySlippage(t.signal, t.stop_price)
                          /\ t.exit_price # ApplySlippage(t.signal, t.target_price)

\* A LONG trade whose first breached bar comes after a quiet bar and breaches
\* the stop and the target at once.
C1_Witness ==
    \E n \in 1..Len(trades) :
        LET t     == trades[n]
            later == BarsAfter(t.entry_time)
        IN  /\ t.signal = "LONG"
            /\ Len(later) >= 2
            /\ FirstBreach(t, later, 2)
            /\ StopBreached(t, later[2])
            /\ TargetBreached(t, later[2])
            /\ t.exit_reason = "stop_loss"
            /\ t.exit_time = later[2].ts

\* C2: capital compounds: the k-th trade's pnl is the capital recorded on
\* trade k-1 (the starting capital for k = 1) times the position-size
\* fraction times the trade's pnl_pct, and the capital recorded on trade k is
\* that previous capital plus the pnl.
CapitalBefore(k) == IF k = 1 THEN initial_capital ELSE trades[k - 1].capital
SizedPnl(base, pct) ==
    (((base * position_size[1]) \div position_size[2]) * pct[1]) \div pct[2]

C2_CapitalCompounds ==
    \A k \in 1..Len(trades) :
        /\ trades[k].pnl = SizedPnl(CapitalBefore(k), trades[k].pnl_pct)
        /\ trades[k].capital = CapitalBefore(k) + trades[k].pnl

\* Two trades, the second of which would have another pnl had it been sized
\* on the starting capital.
C2_Witness ==
    /\ Len(trades) >= 2
    /\ trades[1].capital # initial_capital
    /\ trades[2].pnl # SizedPnl(initial_capital, trades[2].pnl_pct)

EntryTimes(ts) == [k \in 1..Len(ts) |-> ts[k].entry_time]
Timestamps(sigs) == [k \in 1..Len(sigs) |-> sigs[k].timestamp]
HasLaterBar(sig) == \E k \in 1..Len(df) : df[k].ts > sig.timestamp
LoopEntered == pc \in {"loop", "metrics"} \/ (pc = "done" /\ i >= 1)

\* C3 as stated: the trades of a returned result are, in order, exactly the
\* signals that have a bar strictly after their timestamp, and the final
\* capital is the capital of the last trade (the starting capital without
\* trades).
C3_OneTradePerSignalWithLaterBar ==
    (pc = "done" /\ "trades" \in DOMAIN result) =>
        /\ EntryTimes(result.trades) = Timestamps(SelectSeq(signals, HasLaterBar))
        /\ result.final_capital =
              IF result.trades = <<>> THEN initial_capital
              ELSE result.trades[Len(result.trades)].capital

\* C3 (amended): while the running capital is positive, every signal the
\* loop has passed has produced exactly one trade if it has a bar strictly
\* after its timestamp and none otherwise, in signal order; a discarded signal
\* leaves the running capital unchanged and the loop goes on; the loop stops
\* before the end of the signals only when the running capital is <= 0.
C3_OneTradePerSignalWhileCapitalPositive ==
    LoopEntered =>
        /\ EntryTimes(trades) =
              Timestamps(SelectSeq(SubSeq(signals, 1, i - 1), HasLaterBar))
        /\ capital = IF trades = <<>> THEN initial_capital
                     ELSE trades[Len(trades)].capital
        /\ (pc # "loop" /\ i <= Len(signals)) => capital <= 0
        /\ (pc = "done" /\ "trades" \in DOMAIN result) =>
              /\ result.trades = trades
              /\ result.final_capital = capital

\* The loop has ended with a trade for the first signal and none for the
\* second, which has no bar after it.
C3_Witness ==
    /\ pc = "done"
    /\ "trades" \in DOMAIN result
    /\ Len(signals) = 2
    /\ HasLaterBar(signals[1])
    /\ ~HasLaterBar(signals[2])
    /\ EntryTimes(result.trades) = <<signals[1].timestamp>>
    /\ capital > 0

\* C4: every trade's exit reason is stop_loss, take_profit or end_of_data; it
\* is end_of_data exactly when no bar after the entry breaches the stop or the
\* target, and the trade then exits on the last bar at that bar's close (then
\* slipped).  The default exit (next open, time_exit) is on no trade.
C4_ExitReasons ==
    \A n \in 1..Len(trades) :
        LET t     == trades[n]
            later == BarsAfter(t.entry_time)
            last  == later[Len(later)]
        IN  /\ t.exit_reason \in {"stop_loss", "take_profit", "end_of_data"}
            /\ t.exit_reason = "end_of_data" <=>
                   \A k \in 1..Len(later) : ~Breached(t, later[k])
            /\ t.exit_reason = "end_of_data" =>
                   /\ t.exit_time = last.ts
                   /\ t.exit_price = ApplySlippage(t.signal, F(last.close))

\* A trade that runs to the end of the data over two bars, the close of the
\* last differing from the open of the first.
C4_Witness ==
    \E n \in 1..Len(trades) :
        LET t     == trades[n]
            later == BarsAfter(t.entry_time)
        IN  /\ t.exit_reason = "end_of_data"
            /\ Len(later) >= 2
            /\ later[1].open # later[Len(later)].close
            /\ t.exit_time = later[Len(later)].ts

\* C5: the recorded exit price is the raw exit price (stop, target or last
\* close) times 1 - slippage for LONG and 1 + slippage for SHORT, and pnl_pct
\* is (exit - entry) / entry for LONG, (entry - exit) / entry for SHORT, on
\* that slipped price, minus twice the commission.
RawExitPrice(t) ==
    LET later == BarsAfter(t.entry_time)
    IN  CASE t.exit_reason = "stop_loss"   -> t.stop_price
          [] t.exit_reason = "take_profit" -> t.target_price
          [] OTHER                         -> F(later[Len(later)].close)

C5_SlippageAndCommission ==
    \A n \in 1..Len(trades) :
        LET t     == trades[n]
            gross == IF t.signal = "LONG"
                     THEN RDiv(RSub(t.exit_price, t.entry_price), t.entry_price)
                     ELSE RDiv(RSub(t.entry_price, t.exit_price), t.entry_price)
        IN  /\ t.exit_price =
                  RMul(RawExitPrice(t),
                       IF t.signal = "LONG" THEN RSub(One, slippage)
                       ELSE RAdd(One, slippage))
            /\ t.pnl_pct = RSub(RSub(gross, commission), commission)

\* A LONG trade and a SHORT trade with different exit reasons.
C5_Witness ==
    \E n, m \in 1..Len(trades) :
        /\ trades[n].signal = "LONG"
        /\ trades[m].signal = "SHORT"
        /\ trades[n].exit_reason # trades[m].exit_reason
        /\ RLt(trades[n].exit_price, RawExitPrice(trades[n]))
        /\ RLt(RawExitPrice(trades[m]), trades[m].exit_price)

\* C6: when the strategy generates zero signals, run_backtest returns a
\* result that its caller tells apart from the result of a failed lookup,
\* generation or simulation.
C6_EmptySignalsDistinctFromFailure ==
    (pc = "done" /\ strategy_id \in RegisteredIds /\ generation = "returns"
        /\ signals = <<>>) =>
        CallerSeesError(result) # CallerSeesError(StrategyError)

\* C7: a backtest whose signals are all discarded for want of a later bar
\* returns no error but zero trades, a final capital equal to the starting
\* capital, a total return of 0 and the empty metrics.
AllSignalsWithoutLaterBar ==
    /\ signals # <<>>
    /\ \A k \in 1..Len(signals) : ~HasLaterBar(signals[k])

C7_AllDiscardedIsNoError ==
    (pc = "done" /\ LoopEntered /\ AllSignalsWithoutLaterBar) =>
        /\ ~CallerSeesError(result)
        /\ result.trades = <<>>
        /\ result.total_trades = 0
        /\ result.final_capital = initial_capital
        /\ result.total_return = Fin(F(0))
        /\ result.performance_metrics = EmptyDict

-----------------------------------------------------------------------------
(* Properties of the metrics calculations *)

Computed(by) == pc = "done" /\ metrics # NoMetrics /\ metrics.by \in by

\* C8: for a non-empty trade list without a trade of pnl < 0 the profit
\* factor of the engine and of the analyzer is +infinity; with at least one
\* losing trade it is |sum of the winning pnl / sum of the losing pnl|.
SumOfPnlWhere(keep(_)) ==
    SumSeq([k \in 1..Len(trades) |->
              IF keep(trades[k].pnl) THEN trades[k].pnl ELSE 0])

C8_ProfitFactor ==
    (Computed({"engine", "analyzer"}) /\ trades # <<>>) =>
        LET wins   == SumOfPnlWhere(LAMBDA x : x > 0)
            losses == SumOfPnlWhere(LAMBDA x : x < 0)
        IN  metrics.value.profit_factor =
                IF \E k \in 1..Len(trades) : trades[k].pnl < 0
                THEN Fin(Rat(Abs(wins), Abs(losses)))
                ELSE PosInf

\* The engine has computed the profit factor of a list with a winning, a
\* losing and a flat trade.
C8_Witness ==
    /\ Computed({"engine"})
    /\ \E a, b, c \in 1..Len(trades) :
          trades[a].pnl > 0 /\ trades[b].pnl < 0 /\ trades[c].pnl = 0
    /\ metrics.value.profit_factor.kind = "finite"
    /\ metrics.value.profit_factor.val # <<1, 1>>

\* The analyzer has computed the profit factor of a list of flat trades.
C8_WitnessAllFlat ==
    /\ Computed({"analyzer"})
    /\ Len(trades) >= 2
    /\ \A k \in 1..Len(trades) : trades[k].pnl = 0
    /\ metrics.value.profit_factor = PosInf

\* C9: for a non-empty trade list the max_drawdown the engine reports is the
\* maximum over the capital curve of (running peak - capital) / running peak,
\* a fraction >= 0.
ClaimedMaxDrawdown(ts) ==
    LET peak(k) == CHOOSE p \in {ts[j].capital : j \in 1..k} :
                       \A j \in 1..k : ts[j].capital <= p
        falls   == {Rat(peak(k) - ts[k].capital, peak(k)) : k \in 1..Len(ts)}
    IN  CHOOSE x \in falls : \A y \in falls : RGe(x, y)

C9_EngineMaxDrawdown ==
    (Computed({"engine"}) /\ trades # <<>>) =>
        /\ metrics.value.max_drawdown = ClaimedMaxDrawdown(trades)
        /\ RGe(metrics.value.max_drawdown, F(0))

\* C10: for a non-empty trade list the engine's sharpe_ratio is a finite
\* value, never nan or an infinity from a division by a zero deviation.
C10_SharpeRatioDefined ==
    (Computed({"engine"}) /\ trades # <<>>) =>
        metrics.value.sharpe_ratio \in {"zero", "finite"}

-----------------------------------------------------------------------------
(* The backtest endpoint: GET /backtest/{asset} (api/routes/backtest.py) *)

\* Python values with their run-time type, as isinstance sees them.
PyNone == [type |-> "NoneType"]
PyInt(n) == [type |-> "int", value |-> n]
PyStr(x) == [type |-> "str", value |-> x]
PyFloat(x) == [type |-> "float", value |-> x]
PyTimestamp(t) == [type |-> "Timestamp", value |-> t]
PyList(xs) == [type |-> "list", items |-> xs]
PyDict(kv) == [type |-> "dict", items |-> kv]

\* math.isinf(obj) or math.isnan(obj)
IsInfOrNaN(x) == x.kind \in {"inf", "-inf", "nan"}

\* The trade_data dict of run_backtest, lines 114-127.
PyTrade(t) ==
    PyDict([entry_time   |-> PyTimestamp(t.entry_time),
            exit_time    |-> PyTimestamp(t.exit_time),
            signal       |-> PyStr(t.signal),
            entry_price  |-> PyFloat(Fin(t.entry_price)),
            exit_price   |-> PyFloat(Fin(t.exit_price)),
            exit_reason  |-> PyStr(t.exit_reason),
            pnl          |-> PyFloat(Fin(F(t.pnl))),
            pnl_pct      |-> PyFloat(Fin(t.pnl_pct)),
            capital      |-> PyFloat(Fin(F(t.capital))),
            stop_price   |-> PyFloat(Fin(t.stop_price)),
            target_price |-> PyFloat(Fin(t.target_price))])

\* The dict _calculate_performance_metrics returns, lines 230-241 ({} for
\* an empty trade list, line 163-164).  The value of a finite Sharpe ratio
\* is not computed by the model.
PySharpe(kind) ==
    IF kind = "zero" THEN PyFloat(Fin(F(0)))
    ELSE PyFloat([kind |-> kind, val |-> "mean / std * sqrt(252)"])

PyMetrics(m) ==
    IF DOMAIN m = {} THEN PyDict(<<>>)
    ELSE PyDict([total_return  |-> PyFloat(m.total_return),
                 total_trades  |-> PyInt(m.total_trades),
                 win_rate      |-> PyFloat(Fin(m.win_rate)),
                 avg_win       |-> PyFloat(Fin(m.avg_win)),
                 avg_loss      |-> PyFloat(Fin(m.avg_loss)),
                 profit_factor |-> PyFloat(m.profit_factor),
                 max_drawdown  |-> PyFloat(Fin(m.max_drawdown)),
                 sharpe_ratio  |-> PySharpe(m.sharpe_ratio),
                 ml_metrics    |-> PyDict(<<>>)])

\* The dict run_backtest returns, lines 149-156.
PyResult(r) ==
    PyDict([trades              |-> PyList([k \in 1..Len(r.trades) |-> PyTrade(r.trades[k])]),
            total_trades        |-> PyInt(r.total_trades),
            final_capital       |-> PyFloat(Fin(F(r.final_capital))),
            total_return        |-> PyFloat(r.total_return),
            strategy_id         |-> PyStr(r.strategy_id),
            performance_metrics |-> PyMetrics(r.performance_metrics)])

\* A sanitizer that looks at the object itself only.
SanitizeTopLevelOnly(obj) ==
    IF obj.type = "float" /\ IsInfOrNaN(obj.value) THEN PyNone ELSE obj

\* sanitize_for_json, lines 11-20
RECURSIVE sanitize_for_json(_)
sanitize_for_json(obj) ==
    IF obj.type = "dict"
    THEN PyDict([k \in DOMAIN obj.items |-> sanitize_for_json(obj.items[k])])
    ELSE IF obj.type = "list"
    THEN PyList([k \in 1..Len(obj.items) |-> sanitize_for_json(obj.items[k])])
    ELSE IF obj.type = "float"
    THEN IF IsInfOrNaN(obj.value) THEN PyNone ELSE obj
    ELSE obj

\* Lines 133-153: entry_time / exit_time of a trade become text.
IsoFormat(v) ==
    IF v.type = "str" THEN v ELSE PyStr(ToString(v.value))

TimesAsText(trade) ==
    IF trade.type # "dict" THEN trade
    ELSE PyDict([k \in DOMAIN trade.items |->
                   IF k \in {"entry_time", "exit_time"}
                   THEN IsoFormat(trade.items[k])
                   ELSE trade.items[k]])

\* Lines 113-156: the serialisation of the engine's result.
SerializeResults(results) ==
    LET converted == [k \in DOMAIN results.items |->
                        IF results.items[k].type \in {"list", "dict"}
                        THEN sanitize_for_json(results.items[k])
                        ELSE results.items[k]]
        with_times == [k \in DOMAIN converted |->
                        IF k = "trades" /\ converted[k].type = "list"
                        THEN PyList([j \in 1..Len(converted[k].items) |->
                                       TimesAsText(converted[k].items[j])])
                        ELSE converted[k]]
    IN  sanitize_for_json(PyDict(with_times))

\* Query(10000, ge=100), line 81, in minor units
MinQueryCapital == 10000

\* cache_key, line 85: asset and lookback are fixed in the model
CacheKey == <<"backtest", initial_capital>>

\* strategy_id: str = Query(...), line 82: the id of a request is text
RouteInit ==
    /\ Init
    /\ initial_capital >= MinQueryCapital
    /\ strategy_id # "DataFrame"

\* Lines 105-164 after the engine has returned: an error result becomes an
\* HTTP 500, anything else is serialised, sanitised, cached and returned.
Respond ==
    /\ pc = "done"
    /\ IF CallerSeesError(result)
       THEN /\ response' = [status |-> 500]
            /\ UNCHANGED cache
       ELSE LET serialized_results == SerializeResults(PyResult(result)) IN
            /\ response' = [status |-> 200, body |-> serialized_results]
            /\ cache' = (CacheKey :> serialized_results) @@ cache
    /\ pc' = "responded"
    /\ UNCHANGED <<initial_capital, strategy_id, df, generation, signals, i, capital,
                   trades, result, metrics>>
    /\ UNCHANGED <<registry, parameters, position, classifier, original_signals, calls,
                   original_strategies>>

\* Lines 85-88: a later request with the same key is answered from the cache.
RespondFromCache ==
    /\ pc = "responded"
    /\ CacheKey \in DOMAIN cache
    /\ response' = [status |-> 200, body |-> cache[CacheKey]]
    /\ pc' = "cached"
    /\ UNCHANGED <<initial_capital, strategy_id, df, generation, signals, i, capital,
                   trades, result, metrics>>
    /\ UNCHANGED <<registry, parameters, position, classifier, original_signals, calls,
                   original_strategies, cache>>

RouteNext == Start \/ SignalStep \/ Finish \/ Respond \/ RespondFromCache

RouteSpec == RouteInit /\ [][RouteNext]_vars

\* No NaN or infinite float at any depth of dicts and lists.
RECURSIVE NoInfOrNaN(_)
NoInfOrNaN(obj) ==
    IF obj.type = "dict" THEN \A k \in DOMAIN obj.items : NoInfOrNaN(obj.items[k])
    ELSE IF obj.type = "list" THEN \A k \in 1..Len(obj.items) : NoInfOrNaN(obj.items[k])
    ELSE IF obj.type = "float" THEN ~IsInfOrNaN(obj.value)
    ELSE TRUE

\* out is src with every NaN or infinite float replaced by null and every
\* other value the same; with times_as_text a time stamp of src is its text
\* in out.
RECURSIVE SameExceptNull(_, _, _)
SameExceptNull(src, out, times_as_text) ==
    IF src.type = "dict"
    THEN /\ out.type = "dict"
         /\ DOMAIN out.items = DOMAIN src.items
         /\ \A k \in DOMAIN src.items : SameExceptNull(src.items[k], out.items[k], times_as_text)
    ELSE IF src.type = "list"
    THEN /\ out.type = "list"
         /\ Len(out.items) = Len(src.items)
         /\ \A k \in 1..Len(src.items) : SameExceptNull(src.items[k], out.items[k], times_as_text)
    ELSE IF src.type = "float" /\ IsInfOrNaN(src.value)
    THEN out = PyNone
    ELSE IF src.type = "Timestamp" /\ times_as_text
    THEN out.type = "str" /\ out = IsoFormat(src)
    ELSE out.type = src.type /\ out = src

Answered == pc \in {"responded", "cached"} /\ response # NoResponse /\ response.status = 200

\* C11 as stated: the response holds no NaN or infinite float at any depth,
\* each such value of the engine's result is null in the response and in
\* the cache, and every other value is returned unchanged.
C11_SanitizedEverythingElseUnchanged ==
    Answered =>
        /\ NoInfOrNaN(response.body)
        /\ cache[CacheKey] = response.body
        /\ SameExceptNull(PyResult(result), response.body, FALSE)

\* C11: the response holds no NaN or infinite float at any depth, each such
\* value of the engine's result is null in the response and in the cache,
\* and every other value is returned unchanged except the time stamps of
\* the trades, which are returned as text.
C11_SanitizedTimesAsText ==
    Answered =>
        /\ NoInfOrNaN(response.body)
        /\ cache[CacheKey] = response.body
        /\ SameExceptNull(PyResult(result), response.body, TRUE)

\* A backtest with a trade and an infinite profit factor has been answered.
C11_Witness ==
    /\ Answered
    /\ result.trades # <<>>
    /\ result.performance_metrics.profit_factor = PosInf
    /\ response.body.items.performance_metrics.items.profit_factor = PyNone
    /\ response.body.items.trades.items[1].items.pnl = PyFloat(Fin(F(result.trades[1].pnl)))

-----------------------------------------------------------------------------
(* StrategyRegistry (api/strategies/__init__.py) and the constructors of    *)
(* the strategy classes                                                      *)

\* A declared parameter of a registered schema; the model keeps its default.
Declared(v) == [default |-> v]

StopAndTarget(sl, tp) == [stop_loss |-> Declared(sl), take_profit |-> Declared(tp)]

MlSchema(base, sl, tp) ==
    [base_strategy        |-> Declared(base),
     confidence_threshold |-> Declared(<<65, 100>>),
     ml_model_type        |-> Declared("random_forest"),
     fallback_to_original |-> Declared(TRUE)] @@ StopAndTarget(sl, tp)

\* _register_default_strategies, lines 15-143: _strategies after __init__
DefaultStrategies ==
    [vwap_ib |->
        [class |-> "VWAPStrategy",
         parameters |-> [ib_start      |-> Declared("13:30"),
                         ib_end        |-> Declared("14:30"),
                         session_start |-> Declared("22:00"),
                         session_end   |-> Declared("20:00")]
                        @@ StopAndTarget(<<1, 2>>, <<1, 1>>)],
     sma_crossover |->
        [class |-> "SMACrossover",
         parameters |-> [fast_period |-> Declared(10),
                         slow_period |-> Declared(20)]
                        @@ StopAndTarget(<<1, 1>>, <<2, 1>>)],
     rsi_oversold |->
        [class |-> "RSIStrategy",
         parameters |-> [rsi_period |-> Declared(14),
                         oversold   |-> Declared(30),
                         overbought |-> Declared(70)]
                        @@ StopAndTarget(<<1, 1>>, <<2, 1>>)],
     mean_reversion |->
        [class |-> "MeanReversionStrategy",
         parameters |-> [bb_period |-> Declared(20),
                         std_dev   |-> Declared(<<2, 1>>)]
                        @@ StopAndTarget(<<1, 1>>, <<3, 2>>)],
     vwap_ml_validated |->
        [class |-> "SignalValidatorStrategy",
         parameters |-> MlSchema("vwap_ib", <<1, 2>>, <<1, 1>>)],
     sma_ml_validated |->
        [class |-> "SignalValidatorStrategy",
         parameters |-> MlSchema("sma_crossover", <<1, 1>>, <<2, 1>>)],
     rsi_ml_validated |->
        [class |-> "SignalValidatorStrategy",
         parameters |-> MlSchema("rsi_oversold", <<1, 1>>, <<2, 1>>)],
     mean_reversion_ml_validated |->
        [class |-> "SignalValidatorStrategy",
         parameters |-> MlSchema("mean_reversion", <<1, 1>>, <<3, 2>>)]]

\* default_params of each class's __init__
ClassDefaults(class) ==
    CASE class = "VWAPStrategy" ->
             [ib_start |-> "13:30", ib_end |-> "14:30",
              session_start |-> "22:00", session_end |-> "20:00"]
      [] class = "SMACrossover" ->
             [fast_period |-> 10, slow_period |-> 20]
      [] class = "RSIStrategy" ->
             [rsi_period |-> 14, oversold |-> 30, overbought |-> 70]
      [] class = "MeanReversionStrategy" ->
             [bb_period |-> 20, std_dev |-> <<2, 1>>]
      [] class = "SignalValidatorStrategy" ->
             [base_strategy |-> "vwap_ib", confidence_threshold |-> <<65, 100>>,
              ml_model_type |-> "random_forest", fallback_to_original |-> TRUE]

\* A dict is falsy when it is None or empty; both are the empty function.
Truthy(dict) == DOMAIN dict # {}

\* if parameters: default_params.update(parameters);
\* super().__init__(default_params)
MergedParameters(class, params) ==
    IF Truthy(params) THEN params @@ ClassDefaults(class) ELSE ClassDefaults(class)

NotFound(id) == [raised |-> "ValueError", message |-> "Strategy not found", id |-> id]

\* SignalValidatorStrategy.load_base_strategy, lines 29-40: the wrapper
\* looks its base strategy up with its own parameters; every exception of
\* the lookup is printed and the base strategy is None.  The base
\* strategies of the model are not wrappers themselves.
LoadBaseStrategy(params, reg) ==
    IF params.base_strategy \notin DOMAIN reg
    THEN PyNone
    ELSE [class      |-> reg[params.base_strategy].class,
          parameters |-> MergedParameters(reg[params.base_strategy].class, params)]

\* strategy_info["class"](parameters)
Construct(class, params, reg) ==
    LET merged == MergedParameters(class, params) IN
    IF class = "SignalValidatorStrategy"
    THEN [class |-> class, parameters |-> merged,
          base_strategy |-> LoadBaseStrategy(merged, reg)]
    ELSE [class |-> class, parameters |-> merged]

\* strategy_id.endswith('_ml_validated'), over the ids of the model
MlValidatedIds ==
    {"vwap_ml_validated", "sma_ml_validated", "rsi_ml_validated",
     "mean_reversion_ml_validated"}

\* The caller's dict after get_strategy, lines 162-165.
ParametersAfterLookup(id, params, reg) ==
    IF id \in DOMAIN reg /\ id \in MlValidatedIds /\ Truthy(params)
       /\ "base_strategy" \notin DOMAIN params
    THEN params @@ [base_strategy |-> reg[id].parameters.base_strategy.default]
    ELSE params

\* StrategyRegistry.get_strategy, lines 154-167
get_strategy(id, params, reg) ==
    IF id \notin DOMAIN reg
    THEN NotFound(id)
    ELSE [instance |-> Construct(reg[id].class,
                                 ParametersAfterLookup(id, params, reg), reg)]

\* StrategyRegistry.get_strategy_info, lines 180-184
get_strategy_info(id, reg) ==
    IF id \notin DOMAIN reg THEN PyNone ELSE reg[id]

\* What the model registers, looks up and overrides.
LookupIds == DOMAIN DefaultStrategies \cup {"custom_sma", "no_such_strategy"}

CustomEntries ==
    [custom_sma |->
        [class |-> "SMACrossover",
         parameters |-> [fast_period |-> Declared(5), slow_period |-> Declared(15)]]]

OverrideMaps ==
    { <<>>,
      [fast_period |-> 5],
      [fast_period |-> 5, slow_period |-> 15, stop_loss |-> <<2, 1>>],
      [take_profit |-> <<3, 1>>],
      [oversold |-> 25],
      [std_dev |-> <<1, 1>>, bb_period |-> 3],
      [confidence_threshold |-> <<1, 2>>, fallback_to_original |-> FALSE],
      [base_strategy |-> "rsi_oversold"],
      [base_strategy |-> "no_such_strategy"] }

RegistryInit ==
    /\ registry = DefaultStrategies
    /\ strategy_id \in LookupIds
    /\ parameters \in OverrideMaps
    /\ pc = "call"
    /\ result = NoResult
    /\ initial_capital = 0
    /\ df = <<>>
    /\ generation = "returns"
    /\ signals = <<>>
    /\ i = 0
    /\ capital = 0
    /\ trades = <<>>
    /\ metrics = NoMetrics
    /\ position = Unused
    /\ classifier = Unused
    /\ original_signals = <<>>
    /\ response = NoResponse
    /\ cache = <<>>
    /\ calls = Unused
    /\ original_strategies = Unused

\* StrategyRegistry.register, lines 145-152
Register ==
    /\ pc = "call"
    /\ \E id \in DOMAIN CustomEntries :
         /\ id \notin DOMAIN registry
         /\ registry' = (id :> CustomEntries[id]) @@ registry
    /\ UNCHANGED <<parameters, position, classifier, original_signals, calls,
                   original_strategies, response, cache>>
    /\ UNCHANGED engineVars

GetStrategy ==
    /\ pc = "call"
    /\ result' = [call |-> "get_strategy", overrides |-> parameters]
                 @@ get_strategy(strategy_id, parameters, registry)
    /\ parameters' = ParametersAfterLookup(strategy_id, parameters, registry)
    /\ pc' = "returned"
    /\ UNCHANGED <<registry, position, classifier, original_signals, calls,
                   original_strategies, response, cache>>
    /\ UNCHANGED <<initial_capital, strategy_id, df, generation, signals, i, capital,
                   trades, metrics>>

GetStrategyInfo ==
    /\ pc = "call"
    /\ result' = [call |-> "get_strategy_info",
                  info |-> get_strategy_info(strategy_id, registry)]
    /\ pc' = "returned"
    /\ UNCHANGED extVars
    /\ UNCHANGED <<initial_capital, strategy_id, df, generation, signals, i, capital,
                   trades, metrics>>

RegistryNext == Register \/ GetStrategy \/ GetStrategyInfo

RegistrySpec == RegistryInit /\ [][RegistryNext]_vars

Returned(call) == pc = "returned" /\ result.call = call

\* C12: for a registered id, the instance get_strategy returns has every
\* parameter the registered schema declares, with the override's value where
\* the override names it and the declared default otherwise.
C12_DeclaredDefaultsMerged ==
    (Returned("get_strategy") /\ strategy_id \in DOMAIN registry) =>
        LET schema == registry[strategy_id].parameters
            params == result.instance.parameters
        IN  \A q \in DOMAIN schema :
              /\ q \in DOMAIN params
              /\ params[q] = IF q \in DOMAIN result.overrides
                             THEN result.overrides[q]
                             ELSE schema[q].default

\* C12, the part the code keeps: every override is in the instance's
\* parameters.
C12_OverridesKept ==
    (Returned("get_strategy") /\ strategy_id \in DOMAIN registry) =>
        \A q \in DOMAIN result.overrides :
            /\ q \in DOMAIN result.instance.parameters
            /\ result.instance.parameters[q] = result.overrides[q]

\* The ids a call of get_strategy looks up: its own argument and, when it
\* constructs a wrapper, the wrapper's base strategy (signal_validator.py:34).
LookedUp(id, params, reg) ==
    {id} \cup
    IF id \in DOMAIN reg /\ reg[id].class = "SignalValidatorStrategy"
    THEN {MergedParameters(reg[id].class,
                           ParametersAfterLookup(id, params, reg)).base_strategy}
    ELSE {}

\* C13: a lookup of an id that is not registered ends the call of
\* get_strategy with the not-found error, without an instance, and with the
\* registered strategies unchanged.
C13_NotFoundSurfaced ==
    [][ (pc = "call" /\ pc' = "returned" /\ result'.call = "get_strategy"
           /\ \E id \in LookedUp(strategy_id, parameters, registry) :
                 id \notin DOMAIN registry)
        => /\ "raised" \in DOMAIN result'
           /\ result'.message = "Strategy not found"
           /\ "instance" \notin DOMAIN result'
           /\ registry' = registry ]_vars

\* C13, the part the code keeps: a call whose own argument is not
\* registered raises, constructs nothing and leaves the registry alone.
C13_UnknownArgumentRaises ==
    [][ (pc = "call" /\ pc' = "returned" /\ result'.call = "get_strategy"
           /\ strategy_id \notin DOMAIN registry)
        => /\ "raised" \in DOMAIN result'
           /\ "instance" \notin DOMAIN result'
           /\ registry' = registry ]_vars

\* "min" and "max" of the whole-number parameters the default schemas
\* declare (__init__.py:43-73).
DeclaredRanges ==
    [fast_period |-> [min |-> 5,  max |-> 50],
     slow_period |-> [min |-> 10, max |-> 100],
     rsi_period  |-> [min |-> 7,  max |-> 21],
     oversold    |-> [min |-> 20, max |-> 40],
     overbought  |-> [min |-> 60, max |-> 80],
     bb_period   |-> [min |-> 10, max |-> 50]]

\* The override names a parameter the schema of id does not declare, or
\* gives a declared whole-number parameter a value outside its range.
UnknownOrInvalid(id, params, reg) ==
    \E q \in DOMAIN params :
        \/ q \notin DOMAIN reg[id].parameters
        \/ /\ q \in DOMAIN DeclaredRanges
           /\ \/ params[q] < DeclaredRanges[q].min
              \/ params[q] > DeclaredRanges[q].max

\* C22: get_strategy with parameters that are unknown to the strategy's
\* schema or outside the declared range fails with a configuration error;
\* no instance holding such parameters is returned.
C22_InvalidParametersRejected ==
    (Returned("get_strategy") /\ strategy_id \in DOMAIN registry
        /\ UnknownOrInvalid(strategy_id, result.overrides, registry))
    => /\ "raised" \in DOMAIN result
       /\ "instance" \notin DOMAIN result

\* C25: for an ML-validated id and parameters that do not name
\* base_strategy (no parameters included), the wrapper's inner generator is
\* the strategy the id's schema declares as the default of base_strategy.
C25_WrapperUsesDeclaredBase ==
    (Returned("get_strategy") /\ strategy_id \in MlValidatedIds
        /\ "base_strategy" \notin DOMAIN result.overrides)
    => LET declared == registry[strategy_id].parameters.base_strategy.default IN
       /\ result.instance.base_strategy # PyNone
       /\ result.instance.parameters.base_strategy = declared
       /\ result.instance.base_strategy.class = registry[declared].class

\* C25, the part the code keeps: with parameters that are not empty and do
\* not name base_strategy the declared base strategy is wrapped.
C25_DeclaredBaseWithParameters ==
    (Returned("get_strategy") /\ strategy_id \in MlValidatedIds
        /\ Truthy(result.overrides)
        /\ "base_strategy" \notin DOMAIN result.overrides)
    => LET declared == registry[strategy_id].parameters.base_strategy.default IN
       /\ result.instance.base_strategy # PyNone
       /\ result.instance.parameters.base_strategy = declared
       /\ result.instance.base_strategy.class = registry[declared].class

-----------------------------------------------------------------------------
(* VWAPStrategy.generate_signals (api/strategies/vwap_strategy.py)           *)
(*                                                                           *)
(* Time is a grid of SlotsPerDay slots a day; a bar's index is the absolute  *)
(* slot number, its time of day is the slot within the day.                  *)

MaxVwapBars == 3
SlotsPerDay == 6

\* The slots of the bar tables: one day and the first slots of the next.
VwapSlots == 0..9

TimeOfDay(t) == t % SlotsPerDay

\* The session windows of the model keep the order of the registered
\* defaults (ib_start 13:30 < ib_end 14:30 < session_end 20:00 <
\* session_start 22:00, a session that wraps around midnight), and of a
\* session inside one day.
VwapParameters ==
    { [ib_start |-> 1, ib_end |-> 2, session_end |-> 4, session_start |-> 5],
      [ib_start |-> 1, ib_end |-> 2, session_end |-> 4, session_start |-> 0] }

VwapBarShapes ==
    { [high |-> 102, low |-> 98,  close |-> 100, volume |-> 1],
      [high |-> 105, low |-> 100, close |-> 105, volume |-> 1],
      [high |-> 100, low |-> 95,  close |-> 95,  volume |-> 1],
      [high |-> 110, low |-> 100, close |-> 103, volume |-> 2],
      [high |-> 104, low |-> 101, close |-> 104, volume |-> 0] }

\* The index of a bar table is sorted and has no duplicates
\* (data_loader.py:98-105).
SortedIndexes(n) ==
    { t \in [1..n -> VwapSlots] : \A k \in 1..(n - 1) : t[k] < t[k + 1] }

VwapBar(t, shape) ==
    [ts |-> t, high |-> shape.high, low |-> shape.low, close |-> shape.close,
     volume |-> shape.volume]

\* (df.index - SESSION_ANCHOR).date, line 33
SessionDate(t, params) == (t - params.session_start) \div SlotsPerDay

\* DataFrame.between_time(start, end): both ends belong to the window, and
\* a start after the end selects the times around midnight.
BetweenTime(bars, start, end) ==
    SelectSeq(bars, LAMBDA b :
        IF start <= end
        THEN start <= TimeOfDay(b.ts) /\ TimeOfDay(b.ts) <= end
        ELSE start <= TimeOfDay(b.ts) \/ TimeOfDay(b.ts) <= end)

\* df.groupby(df["session_date"]): the keys in ascending order
SessionDates(bars, params) == {SessionDate(bars[k].ts, params) : k \in 1..Len(bars)}

RECURSIVE SortedSeq(_)
SortedSeq(S) ==
    IF S = {} THEN <<>>
    ELSE LET least == CHOOSE x \in S : \A y \in S : x <= y
         IN  <<least>> \o SortedSeq(S \ {least})

DailyData(bars, params, day) ==
    SelectSeq(bars, LAMBDA b : SessionDate(b.ts, params) = day)

\* BaseStrategy.calculate_vwap on row k of the trading candles:
\* cumsum(typical_price * volume) / cumsum(volume), typical_price =
\* (high + low + close) / 3
RunningVwap(candles, k) ==
    NpDiv(Rat(SumSeq([j \in 1..k |->
                (candles[j].high + candles[j].low + candles[j].close)
                    * candles[j].volume]), 3),
          F(SumSeq([j \in 1..k |-> candles[j].volume])))

\* A comparison with nan is False.
FloatGt(x, v) == v.kind = "finite" /\ RLt(v.val, F(x))
FloatLt(x, v) == v.kind = "finite" /\ RLt(F(x), v.val)

LongFlag(candles, k, ib_high) ==
    candles[k].close > ib_high /\ FloatGt(candles[k].close, RunningVwap(candles, k))

ShortFlag(candles, k, ib_low) ==
    candles[k].close < ib_low /\ FloatLt(candles[k].close, RunningVwap(candles, k))

VwapSignal(candles, k, direction, ib_high, ib_low) ==
    [timestamp |-> candles[k].ts, signal |-> direction, price |-> candles[k].close,
     vwap |-> RunningVwap(candles, k), ib_high |-> ib_high, ib_low |-> ib_low]

\* Lines 71-103 without the trade_entered flag: every breakout bar signals.
RECURSIVE ScanCandlesEveryBreakout(_, _, _, _)
ScanCandlesEveryBreakout(candles, k, ib_high, ib_low) ==
    IF k > Len(candles) THEN <<>>
    ELSE (IF LongFlag(candles, k, ib_high)
          THEN <<VwapSignal(candles, k, "LONG", ib_high, ib_low)>>
          ELSE IF ShortFlag(candles, k, ib_low)
          THEN <<VwapSignal(candles, k, "SHORT", ib_high, ib_low)>>
          ELSE <<>>)
         \o ScanCandlesEveryBreakout(candles, k + 1, ib_high, ib_low)

\* Lines 71-103: the loop over the trading candles; trade_entered ends it
\* after the first signal.
RECURSIVE ScanCandles(_, _, _, _)
ScanCandles(candles, k, ib_high, ib_low) ==
    IF k > Len(candles) THEN <<>>
    ELSE IF LongFlag(candles, k, ib_high)
    THEN <<VwapSignal(candles, k, "LONG", ib_high, ib_low)>>
    ELSE IF ShortFlag(candles, k, ib_low)
    THEN <<VwapSignal(candles, k, "SHORT", ib_high, ib_low)>>
    ELSE ScanCandles(candles, k + 1, ib_high, ib_low)

\* Lines 53-103: one iteration of the loop over the session groups.
SessionSignals(daily_data, params) ==
    LET session_data == BetweenTime(daily_data, params.session_start, params.session_end)
        ib_data == BetweenTime(session_data, params.ib_start, params.ib_end)
        trading_candles == BetweenTime(session_data, params.ib_end, params.session_end)
    IN  IF session_data = <<>> \/ ib_data = <<>> \/ trading_candles = <<>>
        THEN <<>>
        ELSE ScanCandles(trading_candles, 1,
                         MaxSeq([k \in 1..Len(ib_data) |-> ib_data[k].high]),
                         MinSeq([k \in 1..Len(ib_data) |-> ib_data[k].low]))

VwapInit ==
    /\ \E n \in 1..MaxVwapBars :
         \E index \in SortedIndexes(n), shapes \in [1..n -> VwapBarShapes] :
            df = [k \in 1..n |-> VwapBar(index[k], shapes[k])]
    /\ parameters \in VwapParameters
    /\ signals = <<>>
    /\ pc = "sessions"
    /\ i = 1
    /\ strategy_id = "vwap_ib"
    /\ initial_capital = 0
    /\ generation = "returns"
    /\ capital = 0
    /\ trades = <<>>
    /\ result = NoResult
    /\ metrics = NoMetrics
    /\ registry = Unused
    /\ position = Unused
    /\ classifier = Unused
    /\ original_signals = <<>>
    /\ response = NoResponse
    /\ cache = <<>>
    /\ calls = Unused
    /\ original_strategies = Unused

\* The body of `for day, daily_data in daily_groups`, for the i-th group.
VwapSessionStep ==
    /\ pc = "sessions"
    /\ LET days == SortedSeq(SessionDates(df, parameters)) IN
         /\ i <= Len(days)
         /\ signals' = signals \o SessionSignals(DailyData(df, parameters, days[i]),
                                                 parameters)
         /\ i' = i + 1
         /\ pc' = IF i + 1 > Len(days) THEN "done" ELSE "sessions"
    /\ UNCHANGED <<initial_capital, strategy_id, df, generation, capital, trades,
                   result, metrics>>
    /\ UNCHANGED extVars

VwapNext == VwapSessionStep

VwapSpec == VwapInit /\ [][VwapNext]_vars

\* The bars of a session and its windows, as sets of bar numbers of df.
InWindow(t, start, end) ==
    IF start <= end
    THEN start <= TimeOfDay(t) /\ TimeOfDay(t) <= end
    ELSE start <= TimeOfDay(t) \/ TimeOfDay(t) <= end

SessionBars(day) ==
    { k \in 1..Len(df) :
        /\ SessionDate(df[k].ts, parameters) = day
        /\ InWindow(df[k].ts, parameters.session_start, parameters.session_end) }

IbBars(day) ==
    { k \in SessionBars(day) : InWindow(df[k].ts, parameters.ib_start, parameters.ib_end) }

TradingBars(day) ==
    { k \in SessionBars(day) : InWindow(df[k].ts, parameters.ib_end, parameters.session_end) }

IbHigh(day) == CHOOSE h \in {df[k].high : k \in IbBars(day)} :
                   \A k \in IbBars(day) : df[k].high <= h

IbLow(day) == CHOOSE l \in {df[k].low : k \in IbBars(day)} :
                  \A k \in IbBars(day) : l <= df[k].low

\* close against the volume-weighted mean of the typical prices of the
\* trading bars up to bar k, in whole numbers
CumVolume(day, k) ==
    SumSeq([j \in 1..k |-> IF j \in TradingBars(day) THEN df[j].volume ELSE 0])

CumTypicalVolume(day, k) ==
    SumSeq([j \in 1..k |-> IF j \in TradingBars(day)
                           THEN (df[j].high + df[j].low + df[j].close) * df[j].volume
                           ELSE 0])

BreaksUp(day, k) ==
    /\ df[k].close > IbHigh(day)
    /\ CumVolume(day, k) > 0
    /\ 3 * df[k].close * CumVolume(day, k) > CumTypicalVolume(day, k)

BreaksDown(day, k) ==
    /\ df[k].close < IbLow(day)
    /\ CumVolume(day, k) > 0
    /\ 3 * df[k].close * CumVolume(day, k) < CumTypicalVolume(day, k)

BreakoutBars(day) ==
    IF IbBars(day) = {} THEN {}
    ELSE { k \in TradingBars(day) : BreaksUp(day, k) \/ BreaksDown(day, k) }

SignalsOfSession(day) ==
    SelectSeq(signals, LAMBDA sig : SessionDate(sig.timestamp, parameters) = day)

\* C14: every session yields at most one signal; it yields one exactly when
\* a bar of its trading window closes beyond the initial balance and the
\* running vwap, and the signal is on the first such bar, LONG above and
\* SHORT below, however often the breakout recurs later in the session.
C14_OneSignalPerSession ==
    pc = "done" =>
        \A day \in SessionDates(df, parameters) :
            LET sigs == SignalsOfSession(day)
                outs == BreakoutBars(day)
            IN  /\ Len(sigs) <= 1
                /\ (outs = {}) = (sigs = <<>>)
                /\ outs # {} =>
                     LET first == CHOOSE k \in outs : \A j \in outs : k <= j IN
                     /\ sigs[1].timestamp = df[first].ts
                     /\ sigs[1].price = df[first].close
                     /\ sigs[1].signal = IF BreaksUp(day, first) THEN "LONG" ELSE "SHORT"

\* A session has signalled on its first breakout bar and a later bar of the
\* same session breaks out again.
C14_Witness ==
    /\ pc = "done"
    /\ \E day \in SessionDates(df, parameters) :
         /\ Len(SignalsOfSession(day)) = 1
         /\ \E k \in BreakoutBars(day) : df[k].ts > SignalsOfSession(day)[1].timestamp

\* C15: the session window and the initial-balance window are half-open: no
\* signal is on a bar at session_end or on a bar of the initial balance, and
\* ib_high / ib_low of a signal are taken over the session's bars from
\* ib_start up to, not including, ib_end.
SessionBarsHalfOpen(day) ==
    { k \in 1..Len(df) :
        /\ SessionDate(df[k].ts, parameters) = day
        /\ TimeOfDay(df[k].ts) # parameters.session_end
        /\ InWindow(df[k].ts, parameters.session_start, parameters.session_end) }

IbBarsHalfOpen(day) ==
    { k \in SessionBarsHalfOpen(day) :
        /\ TimeOfDay(df[k].ts) # parameters.ib_end
        /\ InWindow(df[k].ts, parameters.ib_start, parameters.ib_end) }

C15_HalfOpenWindows ==
    pc = "done" =>
        \A n \in 1..Len(signals) :
            LET day == SessionDate(signals[n].timestamp, parameters)
                ib  == IbBarsHalfOpen(day)
            IN  /\ TimeOfDay(signals[n].timestamp) # parameters.session_end
                /\ \E k \in SessionBarsHalfOpen(day) \ ib :
                       df[k].ts = signals[n].timestamp
                /\ ib # {}
                /\ \A k \in ib : df[k].high <= signals[n].ib_high
                /\ \E k \in ib : df[k].high = signals[n].ib_high
                /\ \A k \in ib : df[k].low >= signals[n].ib_low
                /\ \E k \in ib : df[k].low = signals[n].ib_low

-----------------------------------------------------------------------------
(* The generators that walk the rows of the bar table: SMACrossover,         *)
(* RSIStrategy, MeanReversionStrategy (api/strategies)                       *)

MaxRows == 6

\* The close column of a bar table; row k has the index k.
ClosePrices == {100, 101, 102}

CloseColumns == UNION { [1..n -> ClosePrices] : n \in 1..MaxRows }

\* What the row generators do not use.
RowGeneratorIdle ==
    /\ strategy_id = "row generator"
    /\ initial_capital = 0
    /\ generation = "returns"
    /\ capital = 0
    /\ trades = <<>>
    /\ result = NoResult
    /\ metrics = NoMetrics
    /\ registry = Unused
    /\ classifier = Unused
    /\ original_signals = <<>>
    /\ response = NoResponse
    /\ cache = <<>>
    /\ calls = Unused
    /\ original_strategies = Unused

\* Series.rolling(window).sum() at row k: defined from row `window` on
RollingDefined(k, window) == window >= 1 /\ k >= window

\* A window that reaches one row past row k where there is one.
RollingSumCentered(col, k, window) ==
    IF k + 1 <= Len(col)
    THEN SumSeq([j \in 1..window |-> col[k + 1 - window + j]])
    ELSE SumSeq([j \in 1..window |-> col[k - window + j]])

RollingSum(col, k, window) ==
    SumSeq([j \in 1..window |-> col[k - window + j]])

-----------------------------------------------------------------------------
(* SMACrossover.generate_signals (sma_crossover.py) *)

SmaParameters ==
    { [fast_period |-> 1, slow_period |-> 2],
      [fast_period |-> 2, slow_period |-> 3],
      [fast_period |-> 1, slow_period |-> 3],
      [fast_period |-> 2, slow_period |-> 1] }

\* (df['sma_fast'] > df['sma_slow']).astype(int), line 30: a comparison
\* with an undefined average is False
Position(col, params, k) ==
    IF /\ RollingDefined(k, params.fast_period)
       /\ RollingDefined(k, params.slow_period)
       /\ RollingSum(col, k, params.fast_period) * params.slow_period
            > RollingSum(col, k, params.slow_period) * params.fast_period
    THEN 1 ELSE 0

\* A level in place of the difference.
Level(col, params, k) == Fin(F(Position(col, params, k)))

\* df['position'].diff(), line 31: nan on the first row
Crossover(col, params, k) ==
    IF k = 1 THEN NaN
    ELSE Fin(F(Position(col, params, k) - Position(col, params, k - 1)))

SmaSignal(col, k, direction) ==
    [timestamp |-> k, signal |-> direction, price |-> col[k]]

SmaInit ==
    /\ df \in CloseColumns
    /\ parameters \in SmaParameters
    /\ signals = <<>>
    /\ i = 1
    /\ pc = "rows"
    /\ position = Unused
    /\ RowGeneratorIdle

\* Lines 34-52: the body of the loop over the rows, for row i.
SmaRowStep ==
    /\ pc = "rows"
    /\ i <= Len(df)
    /\ LET crossover == Crossover(df, parameters, i) IN
         signals' = IF crossover = Fin(F(1)) THEN Append(signals, SmaSignal(df, i, "LONG"))
                    ELSE IF crossover = Fin(F(-1)) THEN Append(signals, SmaSignal(df, i, "SHORT"))
                    ELSE signals
    /\ i' = i + 1
    /\ pc' = IF i + 1 > Len(df) THEN "done" ELSE "rows"
    /\ UNCHANGED <<initial_capital, strategy_id, df, generation, capital, trades,
                   result, metrics>>
    /\ UNCHANGED extVars

SmaNext == SmaRowStep

SmaSpec == SmaInit /\ [][SmaNext]_vars

\* The signals on row k, in order.
SignalsAt(k) == SelectSeq(signals, LAMBDA sig : sig.timestamp = k)

DirectionsAt(k) == [n \in 1..Len(SignalsAt(k)) |-> SignalsAt(k)[n].signal]

\* position_state of a row: 1 if the fast average is above the slow one,
\* 0 otherwise and while either average is undefined
Average(k, window) ==
    Rat(SumSeq([j \in 1..window |-> df[k + 1 - j]]), window)

PositionState(k) ==
    IF k < 1 \/ k < parameters.fast_period \/ k < parameters.slow_period THEN 0
    ELSE IF RLt(Average(k, parameters.slow_period), Average(k, parameters.fast_period))
    THEN 1 ELSE 0

\* C16: a row has a LONG signal exactly when position_state changes from 0
\* to 1 on it, a SHORT exactly when it changes from 1 to 0, and no signal
\* otherwise; the signals are in row order.
C16_EdgeTriggered ==
    pc = "done" =>
        /\ \A k \in 1..Len(df) :
             DirectionsAt(k) =
                IF PositionState(k - 1) = 0 /\ PositionState(k) = 1 THEN <<"LONG">>
                ELSE IF PositionState(k - 1) = 1 /\ PositionState(k) = 0 THEN <<"SHORT">>
                ELSE <<>>
        /\ \A n \in 1..(Len(signals) - 1) : signals[n].timestamp < signals[n + 1].timestamp
        /\ \A n \in 1..Len(signals) : signals[n].timestamp \in 1..Len(df)

\* The fast average has stayed above the slow one for two rows and then
\* fallen below: one LONG, no signal on the second row, one SHORT.
C16_Witness ==
    /\ pc = "done"
    /\ \E k \in 2..(Len(df) - 2) :
         /\ PositionState(k - 1) = 0
         /\ PositionState(k) = 1
         /\ PositionState(k + 1) = 1
         /\ PositionState(k + 2) = 0
         /\ DirectionsAt(k) = <<"LONG">>
         /\ DirectionsAt(k + 1) = <<>>
         /\ DirectionsAt(k + 2) = <<"SHORT">>

-----------------------------------------------------------------------------
(* RSIStrategy.generate_signals (rsi_oversold.py) *)

RsiParameters ==
    { [rsi_period |-> 1, oversold |-> 30, overbought |-> 70],
      [rsi_period |-> 2, oversold |-> 30, overbought |-> 70] }

\* prices.diff(); delta.where(delta > 0, 0) and -delta.where(delta < 0, 0):
\* the first row, whose delta is nan, gets 0 in both columns
Gain(col, k) == IF k > 1 /\ col[k] > col[k - 1] THEN col[k] - col[k - 1] ELSE 0
Loss(col, k) == IF k > 1 /\ col[k] < col[k - 1] THEN col[k - 1] - col[k] ELSE 0

\* calculate_rsi, lines 19-26, at row k: the two rolling means have the same
\* divisor, so rs is the quotient of the rolling sums; rs = x / 0 is inf and
\* gives 100, rs = 0 / 0 is nan and gives nan
Rsi(col, period, k) ==
    IF ~RollingDefined(k, period) THEN NaN
    ELSE LET gain == RollingSum([j \in 1..Len(col) |-> Gain(col, j)], k, period)
             loss == RollingSum([j \in 1..Len(col) |-> Loss(col, j)], k, period)
         IN  IF loss = 0
             THEN IF gain = 0 THEN NaN ELSE Fin(F(100))
             ELSE Fin(Rat(100 * gain, gain + loss))

RsiSignal(col, k, direction, rsi) ==
    [timestamp |-> k, signal |-> direction, price |-> col[k], rsi |-> rsi]

\* The tests of lines 47-64 without the latch.
RsiRowNoLatch(rsi, pos, params) ==
    IF rsi.kind = "nan" THEN [position |-> pos, signal |-> "none"]
    ELSE IF RLt(rsi.val, F(params.oversold))
    THEN [position |-> "LONG", signal |-> "LONG"]
    ELSE IF RLt(F(params.overbought), rsi.val)
    THEN [position |-> "SHORT", signal |-> "SHORT"]
    ELSE [position |-> pos, signal |-> "none"]

\* The latch of lines 47-64: what the row does to position and whether it
\* signals.
RsiRow(rsi, pos, params) ==
    IF rsi.kind = "nan" THEN [position |-> pos, signal |-> "none"]
    ELSE IF RLt(rsi.val, F(params.oversold)) /\ pos # "LONG"
    THEN [position |-> "LONG", signal |-> "LONG"]
    ELSE IF RLt(F(params.overbought), rsi.val) /\ pos # "SHORT"
    THEN [position |-> "SHORT", signal |-> "SHORT"]
    ELSE [position |-> pos, signal |-> "none"]

RsiInit ==
    /\ df \in CloseColumns
    /\ parameters \in RsiParameters
    /\ signals = <<>>
    /\ position = "None"
    /\ i = 1
    /\ pc = "rows"
    /\ RowGeneratorIdle

\* Lines 42-64: the body of the loop over the rows, for row i.
RsiRowStep ==
    /\ pc = "rows"
    /\ i <= Len(df)
    /\ LET rsi == Rsi(df, parameters.rsi_period, i)
           row == RsiRow(rsi, position, parameters)
       IN  /\ position' = row.position
           /\ signals' = IF row.signal = "none" THEN signals
                         ELSE Append(signals, RsiSignal(df, i, row.signal, rsi))
    /\ i' = i + 1
    /\ pc' = IF i + 1 > Len(df) THEN "done" ELSE "rows"
    /\ UNCHANGED <<initial_capital, strategy_id, df, generation, capital, trades,
                   result, metrics>>
    /\ UNCHANGED <<registry, parameters, classifier, original_signals, calls,
                   original_strategies, response, cache>>

RsiNext == RsiRowStep

RsiSpec == RsiInit /\ [][RsiNext]_vars

\* The RSI of a row is defined and below the oversold threshold.
RsiOf(k) == Rsi(df, parameters.rsi_period, k)

BelowOversold(k) ==
    RsiOf(k).kind = "finite" /\ RLt(RsiOf(k).val, F(parameters.oversold))

\* Row k starts a run below the threshold: it is below, and the nearest
\* earlier row with a defined RSI, if there is one, is not.
StartsRunBelow(k) ==
    /\ BelowOversold(k)
    /\ \A j \in 1..(k - 1) :
          (RsiOf(j).kind = "finite"
             /\ \A h \in (j + 1)..(k - 1) : RsiOf(h).kind # "finite")
          => ~BelowOversold(j)

LongRows == { signals[n].timestamp : n \in { m \in 1..Len(signals) : signals[m].signal = "LONG" } }

\* C17: every run of consecutive rows with the RSI below the oversold
\* threshold has exactly one LONG signal, on its first row: the rows with a
\* LONG signal are the rows that start a run, also for a run that follows a
\* rise of the RSI back above the threshold.
C17_OneLongPerRunBelow ==
    pc = "done" =>
        /\ LongRows = { k \in 1..Len(df) : StartsRunBelow(k) }
        /\ \A k \in LongRows : Len(SelectSeq(SignalsAt(k), LAMBDA sig : sig.signal = "LONG")) = 1

\* C17, the part the code keeps: a LONG signal is on a row below the
\* threshold, and the first run below the threshold has its LONG on its
\* first row.
C17_FirstRunSignals ==
    pc = "done" =>
        /\ \A k \in LongRows : BelowOversold(k)
        /\ \A k \in 1..Len(df) :
              (BelowOversold(k) /\ \A j \in 1..(k - 1) : ~BelowOversold(j))
              => k \in LongRows

-----------------------------------------------------------------------------
(* MeanReversionStrategy.generate_signals (mean_reversion.py)                *)
(*                                                                           *)
(* The bands are mean -/+ num_std * std with the sample deviation of the     *)
(* window.  With S the sum and Q the sum of squares of the w closes of the   *)
(* window and num_std = a / b,                                               *)
(*    close <= lower  iff  S - w*close >= 0  and                             *)
(*                         (S - w*close)^2 * (w-1) * b^2 >= a^2 * w * (w*Q - S^2) *)
(* and symmetrically for the upper band, so the comparisons of the loop are  *)
(* computed in whole numbers.  The band values a signal carries are left out.*)

BollingerParameters ==
    { [bb_period |-> 3, std_dev |-> <<1, 1>>],
      [bb_period |-> 2, std_dev |-> <<1, 2>>] }

\* rolling(window).mean() and .std() are nan before row `window`, and the
\* sample deviation of a single value is nan
BandsDefined(k, params) == params.bb_period >= 2 /\ k >= params.bb_period

\* w * (rolling mean - close) at row k
MeanMinusClose(col, k, params) ==
    RollingSum(col, k, params.bb_period) - params.bb_period * col[k]

\* |close - mean| >= num_std * std at row k
BeyondBand(col, k, params) ==
    LET w == params.bb_period
        S == RollingSum(col, k, w)
        Q == RollingSum([j \in 1..Len(col) |-> col[j] * col[j]], k, w)
        d == MeanMinusClose(col, k, params)
        a == params.std_dev[1]
        b == params.std_dev[2]
    IN  d * d * (w - 1) * b * b >= a * a * w * (w * Q - S * S)

AtOrBelowLower(col, k, params) ==
    MeanMinusClose(col, k, params) >= 0 /\ BeyondBand(col, k, params)

AtOrAboveUpper(col, k, params) ==
    MeanMinusClose(col, k, params) <= 0 /\ BeyondBand(col, k, params)

AtOrAboveMiddle(col, k, params) == MeanMinusClose(col, k, params) <= 0
AtOrBelowMiddle(col, k, params) == MeanMinusClose(col, k, params) >= 0

\* The loop body without the latch: a row at a band always signals.
BollingerRowNoLatch(col, k, pos, params) ==
    IF ~BandsDefined(k, params) THEN [position |-> pos, signal |-> "none"]
    ELSE IF AtOrBelowLower(col, k, params) THEN [position |-> "LONG", signal |-> "LONG"]
    ELSE IF AtOrAboveUpper(col, k, params) THEN [position |-> "SHORT", signal |-> "SHORT"]
    ELSE [position |-> pos, signal |-> "none"]

\* Lines 42-83: what row k does to position and whether it signals.
BollingerRow(col, k, pos, params) ==
    IF ~BandsDefined(k, params)
    THEN [position |-> pos, signal |-> "none"]
    ELSE IF AtOrBelowLower(col, k, params) /\ pos # "LONG"
    THEN [position |-> "LONG", signal |-> "LONG"]
    ELSE IF AtOrAboveUpper(col, k, params) /\ pos # "SHORT"
    THEN [position |-> "SHORT", signal |-> "SHORT"]
    ELSE IF pos = "LONG" /\ AtOrAboveMiddle(col, k, params)
    THEN [position |-> "None", signal |-> "none"]
    ELSE IF pos = "SHORT" /\ AtOrBelowMiddle(col, k, params)
    THEN [position |-> "None", signal |-> "none"]
    ELSE [position |-> pos, signal |-> "none"]

BollingerInit ==
    /\ df \in CloseColumns
    /\ parameters \in BollingerParameters
    /\ signals = <<>>
    /\ position = "None"
    /\ i = 1
    /\ pc = "rows"
    /\ RowGeneratorIdle

\* The body of the loop over the rows, for row i.
BollingerRowStep ==
    /\ pc = "rows"
    /\ i <= Len(df)
    /\ LET row == BollingerRow(df, i, position, parameters) IN
         /\ position' = row.position
         /\ signals' = IF row.signal = "none" THEN signals
                       ELSE Append(signals, SmaSignal(df, i, row.signal))
    /\ i' = i + 1
    /\ pc' = IF i + 1 > Len(df) THEN "done" ELSE "rows"
    /\ UNCHANGED <<initial_capital, strategy_id, df, generation, capital, trades,
                   result, metrics>>
    /\ UNCHANGED <<registry, parameters, classifier, original_signals, calls,
                   original_strategies, response, cache>>

BollingerNext == BollingerRowStep

BollingerSpec == BollingerInit /\ [][BollingerNext]_vars

\* The signals a step of the loop has added, as directions.
Emitted == { signals'[n].signal : n \in (Len(signals) + 1)..Len(signals') }

RowWithBands == pc = "rows" /\ i <= Len(df) /\ BandsDefined(i, parameters)

\* The latch after a row, from the latch before it and what the row emitted.
LatchFollows ==
    position' =
        IF "LONG" \in Emitted THEN "LONG"
        ELSE IF "SHORT" \in Emitted THEN "SHORT"
        ELSE IF \/ position = "LONG" /\ AtOrAboveMiddle(df, i, parameters)
                \/ position = "SHORT" /\ AtOrBelowMiddle(df, i, parameters)
        THEN "None"
        ELSE position

\* C18 as stated: each row emits LONG exactly when close <= lower band and
\* the latch is not LONG, SHORT exactly when close >= upper band and the
\* latch is not SHORT; the latch follows the signals and is cleared, without
\* a signal, by a close at the middle band.
C18_LatchAsStated ==
    [][ RowWithBands =>
          /\ ("LONG" \in Emitted) = (AtOrBelowLower(df, i, parameters) /\ position # "LONG")
          /\ ("SHORT" \in Emitted) = (AtOrAboveUpper(df, i, parameters) /\ position # "SHORT")
          /\ LatchFollows
          /\ (position' = "None" /\ position # "None") => Emitted = {} ]_vars

\* C18: each row emits LONG exactly when close <= lower band and the latch
\* is not LONG, and SHORT exactly when close >= upper band, the latch is not
\* SHORT and the row emits no LONG; the latch follows the signals and is
\* cleared, without a signal, by a close at the middle band; a row emits at
\* most one signal and a row without bands none.
C18_LatchLongFirst ==
    [][ /\ RowWithBands =>
          /\ ("LONG" \in Emitted) = (AtOrBelowLower(df, i, parameters) /\ position # "LONG")
          /\ ("SHORT" \in Emitted) = (/\ AtOrAboveUpper(df, i, parameters)
                                      /\ position # "SHORT"
                                      /\ "LONG" \notin Emitted)
          /\ LatchFollows
          /\ (position' = "None" /\ position # "None") => Emitted = {}
          /\ Len(signals') <= Len(signals) + 1
        /\ (pc = "rows" /\ ~BandsDefined(i, parameters)) =>
              signals' = signals /\ position' = position ]_vars

\* After a LONG the latch has kept a row at the lower band silent, a close
\* at the middle band has cleared it, and a second LONG has followed.
C18_Witness ==
    /\ pc = "done"
    /\ \E a, b, c, d \in 1..Len(df) :
         /\ a < b /\ b < c /\ c < d
         /\ DirectionsAt(a) = <<"LONG">>
         /\ BandsDefined(b, parameters) /\ AtOrBelowLower(df, b, parameters)
         /\ DirectionsAt(b) = <<>>
         /\ DirectionsAt(c) = <<>>
         /\ AtOrAboveMiddle(df, c, parameters)
         /\ DirectionsAt(d) = <<"LONG">>
         /\ \A k \in a..d : DirectionsAt(k) # <<"SHORT">>

-----------------------------------------------------------------------------
(* SignalValidatorStrategy.generate_signals (signal_validator.py) and        *)
(* SignalClassifier.predict_confidence (models/signal_classifier.py)         *)

\* The confidences a trained model predicts, and the default of an
\* untrained one (signal_classifier.py:192-194).
Confidences == { <<3, 10>>, <<1, 2>>, <<65, 100>>, <<9, 10>> }
DefaultConfidence == <<1, 2>>

\* confidence_threshold: the registered default and the bounds of its
\* declared range (__init__.py:89)
ValidatorParameters ==
    { [base_strategy |-> b, confidence_threshold |-> t, fallback_to_original |-> f] :
        b \in {"vwap_ib", "no_such_strategy"},
        t \in { <<1, 2>>, <<65, 100>>, <<19, 20>> },
        f \in BOOLEAN }

Classifiers(n) ==
    { [is_trained |-> FALSE, predicted |-> <<>>] }
    \cup { [is_trained |-> TRUE, predicted |-> c] : c \in [1..n -> Confidences] }

\* SignalClassifier.predict_confidence for the k-th signal
PredictConfidence(cl, k) ==
    IF ~cl.is_trained THEN DefaultConfidence ELSE cl.predicted[k]

\* Lines 73-76: the signal with the three ML fields
Validated(sig, confidence, params) ==
    [timestamp       |-> sig.timestamp,
     signal          |-> sig.signal,
     price           |-> sig.price,
     original_signal |-> sig.signal,
     ml_confidence   |-> confidence,
     ml_validated    |-> RGe(confidence, params.confidence_threshold)]

\* An inclusion rule that lets every signal through.
IncludedAlways(sig_dict, cl, params) == TRUE

\* Lines 79-80
Included(sig_dict, cl, params) ==
    (params.fallback_to_original /\ ~cl.is_trained) \/ sig_dict.ml_validated

ValidatorInit ==
    /\ registry = DefaultStrategies
    /\ parameters \in ValidatorParameters
    /\ original_signals \in SignalTables
    /\ classifier \in Classifiers(Len(original_signals))
    /\ signals = <<>>
    /\ i = 0
    /\ pc = "start"
    /\ df = <<>>
    /\ strategy_id = "vwap_ml_validated"
    /\ initial_capital = 0
    /\ generation = "returns"
    /\ capital = 0
    /\ trades = <<>>
    /\ result = NoResult
    /\ metrics = NoMetrics
    /\ position = Unused
    /\ response = NoResponse
    /\ cache = <<>>
    /\ calls = Unused
    /\ original_strategies = Unused

\* Lines 54-64: without a base strategy the wrapper returns an empty table,
\* and an empty table of the base strategy is returned as it is.
ValidatorStart ==
    /\ pc = "start"
    /\ IF LoadBaseStrategy(parameters, registry) = PyNone \/ original_signals = <<>>
       THEN /\ pc' = "done"
            /\ i' = i
       ELSE /\ pc' = "validate"
            /\ i' = 1
    /\ UNCHANGED <<initial_capital, strategy_id, df, generation, signals, capital,
                   trades, result, metrics>>
    /\ UNCHANGED extVars

\* Lines 68-81: the body of the loop over the base strategy's signals.
ValidateSignal ==
    /\ pc = "validate"
    /\ i <= Len(original_signals)
    /\ LET confidence  == PredictConfidence(classifier, i)
           signal_dict == Validated(original_signals[i], confidence, parameters)
       IN  signals' = IF Included(signal_dict, classifier, parameters)
                      THEN Append(signals, signal_dict)
                      ELSE signals
    /\ i' = i + 1
    /\ pc' = IF i + 1 > Len(original_signals) THEN "done" ELSE "validate"
    /\ UNCHANGED <<initial_capital, strategy_id, df, generation, capital, trades,
                   result, metrics>>
    /\ UNCHANGED extVars

ValidatorNext == ValidatorStart \/ ValidateSignal

ValidatorSpec == ValidatorInit /\ [][ValidatorNext]_vars

\* The wrapper has finished over the signals of an existing base strategy.
Wrapped == pc = "done" /\ parameters.base_strategy \in DOMAIN registry

\* signals n of the output and k of the base strategy are the same signal
SameSignal(out, inner) ==
    /\ out.timestamp = inner.timestamp
    /\ out.signal = inner.signal
    /\ out.price = inner.price

\* C19: without a trained model the wrapper follows fallback_to_original
\* for every threshold: flag true, every signal of the base strategy is
\* passed through in order; flag false, the output is empty.
C19_UntrainedFollowsFlag ==
    (Wrapped /\ ~classifier.is_trained) =>
        IF parameters.fallback_to_original
        THEN /\ Len(signals) = Len(original_signals)
             /\ \A k \in 1..Len(signals) : SameSignal(signals[k], original_signals[k])
        ELSE signals = <<>>

\* C19, the part the code keeps: with the flag true every signal is passed
\* through in order.
C19_FallbackPassesThrough ==
    (Wrapped /\ ~classifier.is_trained /\ parameters.fallback_to_original) =>
        /\ Len(signals) = Len(original_signals)
        /\ \A k \in 1..Len(signals) : SameSignal(signals[k], original_signals[k])

\* The signals of the base strategy whose predicted confidence reaches the
\* threshold, as their positions in ascending order.
Accepted ==
    { k \in 1..Len(original_signals) :
        ~RLt(classifier.predicted[k], parameters.confidence_threshold) }

\* C20: with a trained model the output is exactly the signals of the base
\* strategy whose predicted confidence is >= the threshold, in their order
\* and with their timestamp, direction and price; each carries the
\* predicted confidence and ml_validated = (confidence >= threshold).
C20_TrainedFilters ==
    (Wrapped /\ classifier.is_trained) =>
        LET kept == SortedSeq(Accepted) IN
        /\ Len(signals) = Len(kept)
        /\ \A n \in 1..Len(kept) :
              /\ SameSignal(signals[n], original_signals[kept[n]])
              /\ signals[n].ml_confidence = classifier.predicted[kept[n]]
              /\ signals[n].ml_validated = TRUE

\* A trained wrapper has kept one signal of the base strategy and dropped
\* another.
C20_Witness ==
    /\ Wrapped
    /\ classifier.is_trained
    /\ Len(original_signals) = 2
    /\ Len(signals) = 1
    /\ \E k \in 1..2 : SameSignal(signals[1], original_signals[k])
                       /\ signals[1].ml_confidence = classifier.predicted[k]

-----------------------------------------------------------------------------
(* generate_signals up to its loop, for an instance obtained from the       *)
(* registry; the loops themselves are the generators' specifications above  *)

\* A bar table with its columns and a DatetimeIndex, of no or one row.
ShortSeries == { <<>> } \cup { <<VwapBar(0, shape)>> : shape \in VwapBarShapes }

\* vwap_strategy.py:21-51.  Line 48 prints df.index[0] and df.index[-1],
\* an IndexError on a table without rows.
VwapPrologue(frame) ==
    IF Len(frame) = 0
    THEN [generation |-> "raises", pc |-> "done"]
    ELSE [generation |-> "returns", pc |-> "sessions"]

\* sma_crossover.py:20-33, rsi_oversold.py:30-40, mean_reversion.py:28-39:
\* the indicator columns of a table without rows are empty, the loop over
\* the rows has no iteration and pd.DataFrame([]) is returned.
RowPrologue(frame) ==
    IF Len(frame) = 0
    THEN [generation |-> "returns", pc |-> "done"]
    ELSE [generation |-> "returns", pc |-> "rows"]

\* The call strategy.generate_signals(df, asset) up to the loop.  The
\* wrapper returns an empty table without a base strategy and calls its
\* base strategy otherwise (signal_validator.py:54-59), outside any try.
Prologue(instance, frame) ==
    LET generator == IF instance.class = "SignalValidatorStrategy"
                     THEN instance.base_strategy
                     ELSE instance
    IN  IF generator = PyNone THEN [generation |-> "returns", pc |-> "done"]
        ELSE IF generator.class = "VWAPStrategy" THEN VwapPrologue(frame)
        ELSE RowPrologue(frame)

GenerateCallInit ==
    /\ registry = DefaultStrategies
    /\ strategy_id \in LookupIds
    /\ parameters \in OverrideMaps
    /\ df \in ShortSeries
    /\ pc = "call"
    /\ result = NoResult
    /\ initial_capital = 0
    /\ generation = "returns"
    /\ signals = <<>>
    /\ i = 0
    /\ capital = 0
    /\ trades = <<>>
    /\ metrics = NoMetrics
    /\ position = Unused
    /\ classifier = Unused
    /\ original_signals = <<>>
    /\ response = NoResponse
    /\ cache = <<>>
    /\ calls = Unused
    /\ original_strategies = Unused

\* instance.generate_signals(df, asset) on the instance get_strategy returned
GenerateCall ==
    /\ Returned("get_strategy")
    /\ "instance" \in DOMAIN result
    /\ LET outcome == Prologue(result.instance, df) IN
         /\ generation' = outcome.generation
         /\ pc' = outcome.pc
    /\ signals' = <<>>
    /\ UNCHANGED <<initial_capital, strategy_id, df, i, capital, trades, result, metrics>>
    /\ UNCHANGED extVars

GenerateCallNext == GetStrategy \/ GenerateCall

GenerateCallSpec == GenerateCallInit /\ [][GenerateCallNext]_vars

\* generate_signals has been called on the instance.
Called == pc \in {"done", "sessions", "rows"}

\* C21: for every registered strategy, generate_signals on an empty bar
\* series returns an empty signal table and does not raise.
C21_EmptySeriesEmptySignals ==
    (Called /\ df = <<>>) =>
        /\ generation = "returns"
        /\ pc = "done"
        /\ signals = <<>>

\* C21, the part the code keeps: the strategies whose generator is not the
\* VWAP + Initial Balance class return an empty table on an empty series.
C21_RowGeneratorsEmptySignals ==
    (Called /\ df = <<>>
        /\ result.instance.class # "VWAPStrategy"
        /\ (result.instance.class = "SignalValidatorStrategy"
              => \/ result.instance.base_strategy = PyNone
                 \/ result.instance.base_strategy.class # "VWAPStrategy"))
    => /\ generation = "returns"
       /\ pc = "done"
       /\ signals = <<>>

-----------------------------------------------------------------------------
(* run_backtest: failures                                                    *)

\* The call has failed: the lookup raised (an unknown id is a ValueError, a
\* table as the id a TypeError of the dict lookup), generate_signals raised,
\* or the return statement divided by an initial_capital of 0.
Failed ==
    \/ strategy_id \notin RegisteredIds
    \/ generation = "raises"
    \/ (signals # <<>> /\ initial_capital = 0 /\ trades = <<>>)

\* C28: run_backtest never propagates an exception: a failure of the
\* lookup (a non-string id included), of the signal generation or of the
\* simulation is returned as a result with an 'error' key and no trades,
\* and the engine's initial_capital is never changed by the call.
C28_FailuresAreErrorResults ==
    /\ [](pc = "done" =>
            /\ "raised" \notin DOMAIN result
            /\ Failed => (CallerSeesError(result) /\ "trades" \notin DOMAIN result))
    /\ [][initial_capital' = initial_capital]_vars

\* The call with a signal table as the strategy id has returned its error
\* result.
C28_Witness ==
    /\ pc = "done"
    /\ strategy_id = "DataFrame"
    /\ CallerSeesError(result)
    /\ "trades" \notin DOMAIN result

-----------------------------------------------------------------------------
(* Consecutive calls of run_backtest on one engine                           *)

MaxCalls == 2

\* What the callers of a session assign to the engine and ask for.
SessionCapitals == {1000000, 2000000}
SessionIds == {"vwap_ib", "no_such_strategy"}

\* One bar series and what the strategy generates on it, for the whole
\* session; bars of one shape.
SessionInit ==
    /\ Init
    /\ \E shape \in BarShapes :
         df = [k \in 1..MaxBars |-> [ts |-> k, open |-> shape.open, high |-> shape.high,
                                     low |-> shape.low, close |-> shape.close]]
    /\ generation = "returns"
    /\ signals # <<>>

\* The caller keeps the result, assigns the engine's initial_capital
\* (routes/backtest.py:104) and calls run_backtest again.  The locals of the
\* finished call are still in the state: the next call has to set its own.
NextCall ==
    /\ pc = "done"
    /\ calls = Unused \/ Len(calls) < MaxCalls
    /\ calls' = Append(IF calls = Unused THEN <<>> ELSE calls,
                       [strategy_id |-> strategy_id, initial_capital |-> initial_capital,
                        result |-> result])
    /\ strategy_id' \in SessionIds
    /\ initial_capital' \in SessionCapitals
    /\ pc' = "start"
    /\ UNCHANGED <<df, generation, signals, i, capital, trades, result, metrics>>
    /\ UNCHANGED <<registry, parameters, position, classifier, original_signals, response,
                   cache, original_strategies>>

SessionNext == Start \/ SignalStep \/ Finish \/ NextCall

SessionSpec == SessionInit /\ [][SessionNext]_vars

\* The earlier calls of the session.
EarlierCalls == IF calls = Unused THEN <<>> ELSE calls

\* C23: run_backtest leaves no state behind: a call returns the same trades,
\* final_capital and metrics as every earlier call on the engine with the
\* same strategy id, bar series and initial capital, whatever was run in
\* between.
C23_SameCallSameResult ==
    pc = "done" =>
        \A k \in 1..Len(EarlierCalls) :
            (/\ EarlierCalls[k].strategy_id = strategy_id
             /\ EarlierCalls[k].initial_capital = initial_capital)
            => EarlierCalls[k].result = result

\* The third call repeats the first after a call with another capital, and
\* all three produced trades.
C23_Witness ==
    /\ pc = "done"
    /\ Len(EarlierCalls) = 2
    /\ EarlierCalls[1].strategy_id = strategy_id
    /\ EarlierCalls[1].initial_capital = initial_capital
    /\ EarlierCalls[2].strategy_id = strategy_id
    /\ EarlierCalls[2].initial_capital # initial_capital
    /\ "trades" \in DOMAIN result /\ result.trades # <<>>
    /\ "trades" \in DOMAIN EarlierCalls[2].result /\ EarlierCalls[2].result.trades # <<>>

-----------------------------------------------------------------------------
(* The backtest endpoint serving several requests with the shared engine    *)
(* (api/components.py:22, api/routes/backtest.py:77-164)                     *)

Requests == {1, 2}

\* BacktestEngine(), backtest_engine.py:6, in minor units
DefaultCapital == 1000000

\* Both registered strategies of the model generate the table `signals` on
\* the bars of the asset; their results differ in strategy_id.
ServerIds == {"vwap_ib", "sma_crossover", "no_such_strategy"}

Waiting(query) == [strategy_id |-> query.strategy_id,
                   initial_capital |-> query.initial_capital,
                   state |-> "waiting", result |-> NoResult, response |-> NoResponse]

\* cache_key of a request, line 85: asset and lookback are fixed in the model
RequestKey(r) == <<"backtest", calls[r].initial_capital>>

\* Handlers that run in threads: a request is taken up at any time.
HandlersInThreads == TRUE

\* The handler is `async def run_backtest` and awaits nothing: the event
\* loop runs it from its first line to its return before it takes up
\* another request.
EventLoopFree == \A q \in Requests : calls[q].state # "running"

ServerInit ==
    /\ initial_capital = DefaultCapital
    /\ strategy_id = "vwap_ib"
    /\ \E shape \in BarShapes :
         df = [k \in 1..MaxBars |-> [ts |-> k, open |-> shape.open, high |-> shape.high,
                                     low |-> shape.low, close |-> shape.close]]
    /\ \/ /\ generation = "returns"
          /\ signals \in { s \in SignalTables :
                             \A k \in 1..Len(s) : s[k].timestamp <= Len(df) }
       \/ /\ generation = "raises"
          /\ signals = <<>>
    /\ pc = "idle"
    /\ i = 0
    /\ capital = 0
    /\ trades = <<>>
    /\ result = NoResult
    /\ metrics = NoMetrics
    /\ registry = Unused
    /\ parameters = Unused
    /\ position = Unused
    /\ classifier = Unused
    /\ original_signals = <<>>
    /\ response = NoResponse
    /\ cache = <<>>
    /\ calls \in [Requests -> { Waiting(query) :
                     query \in [strategy_id : ServerIds, initial_capital : SessionCapitals] }]
    /\ original_strategies = Unused

\* Lines 85-104: the cache lookup, which answers the request when the key is
\* cached, and otherwise the assignment of the request's initial_capital to
\* the shared engine and the call of run_backtest.
Dispatch ==
    \E r \in Requests :
        /\ calls[r].state = "waiting"
        /\ EventLoopFree
        /\ IF RequestKey(r) \in DOMAIN cache
           THEN /\ calls' = [calls EXCEPT ![r].state = "answered",
                                          ![r].response = [status |-> 200,
                                                           body |-> cache[RequestKey(r)],
                                                           cached |-> TRUE]]
                /\ UNCHANGED <<initial_capital, strategy_id, pc>>
           ELSE /\ calls' = [calls EXCEPT ![r].state = "running"]
                /\ initial_capital' = calls[r].initial_capital
                /\ strategy_id' = calls[r].strategy_id
                /\ pc' = "start"
        /\ UNCHANGED <<df, generation, signals, i, capital, trades, result, metrics>>
        /\ UNCHANGED <<registry, parameters, position, classifier, original_signals,
                       response, cache, original_strategies>>

\* Lines 107-164 for the request whose call of run_backtest has returned: an
\* error result becomes an HTTP 500, anything else is serialised, sanitised,
\* saved under the request's key and returned.
Answer ==
    \E r \in Requests :
        /\ calls[r].state = "running"
        /\ pc = "done"
        /\ IF CallerSeesError(result)
           THEN /\ calls' = [calls EXCEPT ![r].state = "answered",
                                          ![r].result = result,
                                          ![r].response = [status |-> 500]]
                /\ UNCHANGED cache
           ELSE LET serialized_results == SerializeResults(PyResult(result)) IN
                /\ calls' = [calls EXCEPT ![r].state = "answered",
                                          ![r].result = result,
                                          ![r].response = [status |-> 200,
                                                           body |-> serialized_results,
                                                           cached |-> FALSE]]
                /\ cache' = (RequestKey(r) :> serialized_results) @@ cache
        /\ pc' = "idle"
        /\ UNCHANGED <<initial_capital, strategy_id, df, generation, signals, i, capital,
                       trades, result, metrics>>
        /\ UNCHANGED <<registry, parameters, position, classifier, original_signals,
                       response, original_strategies>>

ServerNext == Dispatch \/ Start \/ SignalStep \/ Finish \/ Answer

ServerSpec == ServerInit /\ [][ServerNext]_vars

\* Request r was answered with a result the engine computed for it.
Computed200(r) ==
    /\ calls[r].state = "answered"
    /\ calls[r].response.status = 200
    /\ ~calls[r].response.cached

\* The result of request r rests on the initial capital r supplied: the
\* capital that seeds its trades, the base of total_return and the base of
\* performance_metrics.total_return.
OwnCapital(r) ==
    LET res == calls[r].result
        own == calls[r].initial_capital
    IN  /\ res.trades # <<>> =>
              /\ res.trades[1].capital - res.trades[1].pnl = own
              /\ res.trades[1].pnl = Pnl(own, res.trades[1].pnl_pct)
              /\ res.performance_metrics.total_return =
                     NpDiv(F(res.trades[Len(res.trades)].capital - own), F(own))
        /\ res.total_return = NpDiv(F(res.final_capital - own), F(own))
        /\ calls[r].response.body = SerializeResults(PyResult(res))

\* C24: with requests of different initial_capital in flight on the shared
\* engine, in every order in which the event loop serves them each
\* computed result rests on the request's own initial capital only.
C24_OwnCapitalOnly ==
    \A r \in Requests : Computed200(r) => OwnCapital(r)

\* Two requests with different capitals were both in flight and both
\* answered with computed results that hold trades.
C24_Witness ==
    /\ calls[1].initial_capital # calls[2].initial_capital
    /\ \A r \in Requests : Computed200(r) /\ calls[r].result.trades # <<>>

\* C27: a request answered from the cache receives a response that was
\* computed for its own asset, lookback, initial_capital and strategy_id.
C27_CacheHitSameStrategy ==
    \A r \in Requests :
        (calls[r].state = "answered" /\ calls[r].response.status = 200
            /\ calls[r].response.cached)
        => \E q \in Requests :
              /\ Computed200(q)
              /\ calls[q].response.body = calls[r].response.body
              /\ calls[q].initial_capital = calls[r].initial_capital
              /\ calls[q].strategy_id = calls[r].strategy_id

\* C27, the part the code keeps: the cached response was computed for the
\* same initial_capital.
C27_CacheHitSameCapital ==
    \A r \in Requests :
        (calls[r].state = "answered" /\ calls[r].response.status = 200
            /\ calls[r].response.cached)
        => \E q \in Requests :
              /\ Computed200(q)
              /\ calls[q].response.body = calls[r].response.body
              /\ calls[q].initial_capital = calls[r].initial_capital

-----------------------------------------------------------------------------
(* BacktestEngine.run_backtest_legacy (backtest_engine.py:243-277) and      *)
(* callers of the registry that run beside it                               *)

\* Lines 262-267: the entry registered for the duration of the call
TemporaryDummy == [class |-> "DummyStrategy", parameters |-> <<>>]

\* A strategy some caller has registered under the id 'dummy' before.
OwnDummy == [class |-> "SMACrossover",
             parameters |-> [fast_period |-> Declared(5), slow_period |-> Declared(15)]]

LegacyError == [error |-> "No signals provided"]

LegacyInit ==
    /\ registry \in { DefaultStrategies, ("dummy" :> OwnDummy) @@ DefaultStrategies }
    /\ signals \in SignalTables
    /\ df \in { s \in BarSeries : Len(s) = MaxBars /\ \A k \in 1..Len(s) : s[k] = [s[1] EXCEPT !.ts = k] }
    /\ pc = "call"
    /\ original_strategies = Unused
    /\ result = NoResult
    /\ strategy_id = "dummy"
    /\ initial_capital = DefaultCapital
    /\ generation = "returns"
    /\ i = 0
    /\ capital = 0
    /\ trades = <<>>
    /\ metrics = NoMetrics
    /\ parameters = Unused
    /\ position = Unused
    /\ classifier = Unused
    /\ original_signals = <<>>
    /\ response = NoResponse
    /\ cache = <<>>
    /\ calls = Unused

\* Lines 246-267: the early return on an empty table; otherwise the copy of
\* the registered strategies and the registration of the dummy.
LegacyRegister ==
    /\ pc = "call"
    /\ IF signals = <<>>
       THEN /\ result' = LegacyError
            /\ pc' = "returned"
            /\ UNCHANGED <<registry, original_strategies>>
       ELSE /\ original_strategies' = registry
            /\ registry' = ("dummy" :> TemporaryDummy) @@ registry
            /\ pc' = "registered"
            /\ UNCHANGED result
    /\ UNCHANGED <<initial_capital, strategy_id, df, generation, signals, i, capital,
                   trades, metrics>>
    /\ UNCHANGED <<parameters, position, classifier, original_signals, response, cache,
                   calls>>

\* Line 269: run_backtest('dummy', price_data, asset) returns a result with
\* trades or, after an exception, an error result; it does not write the
\* registry.
LegacyRun ==
    /\ pc = "registered"
    /\ result' \in { [strategy_id |-> "dummy", outcome |-> "trades"], StrategyError }
    /\ pc' = "ran"
    /\ UNCHANGED <<initial_capital, strategy_id, df, generation, signals, i, capital,
                   trades, metrics>>
    /\ UNCHANGED extVars

\* Line 272: registry._strategies = original_strategies
Restore(reg, saved) == saved

LegacyRestore ==
    /\ pc = "ran"
    /\ registry' = Restore(registry, original_strategies)
    /\ pc' = "returned"
    /\ UNCHANGED <<initial_capital, strategy_id, df, generation, signals, i, capital,
                   trades, result, metrics>>
    /\ UNCHANGED <<parameters, position, classifier, original_signals, response, cache,
                   calls, original_strategies>>

\* StrategyRegistry.register called by another caller (a thread beside the
\* legacy call), at any time.
RegisterElsewhere ==
    /\ \E id \in DOMAIN CustomEntries :
         /\ id \notin DOMAIN registry
         /\ registry' = (id :> CustomEntries[id]) @@ registry
    /\ UNCHANGED <<parameters, position, classifier, original_signals, response, cache,
                   calls, original_strategies>>
    /\ UNCHANGED engineVars

LegacyNext == LegacyRegister \/ LegacyRun \/ LegacyRestore \/ RegisterElsewhere

LegacySpec == LegacyInit /\ [][LegacyNext]_vars

\* C26: the dummy is registered for the duration of the call only.  The
\* step that returns from run_backtest_legacy leaves every strategy other
\* callers have registered (before the call or while it ran) in place with
\* its entry, adds none, and leaves under 'dummy' what was there before the
\* call.
C26_TemporaryRegistration ==
    [][ (pc # "returned" /\ pc' = "returned") =>
          /\ \A id \in DOMAIN registry \ {"dummy"} :
                id \in DOMAIN registry' /\ registry'[id] = registry[id]
          /\ \A id \in DOMAIN registry' \ {"dummy"} : id \in DOMAIN registry
          /\ pc = "call" => registry' = registry
          /\ pc = "ran" =>
                /\ "dummy" \in DOMAIN registry' <=> "dummy" \in DOMAIN original_strategies
                /\ "dummy" \in DOMAIN registry' =>
                       registry'["dummy"] = original_strategies["dummy"] ]_vars

\* C26, the part the code keeps: the call returns with the registered
\* strategies it found when it started.
C26_SnapshotRestored ==
    [][ (pc # "returned" /\ pc' = "returned") =>
          /\ pc = "call" => registry' = registry
          /\ pc = "ran" => registry' = original_strategies ]_vars

-----------------------------------------------------------------------------
(* The four signal generators side by side                                   *)

IsVwap == strategy_id = "vwap_ib"
IsSma == ~IsVwap /\ "fast_period" \in DOMAIN parameters
IsRsi == ~IsVwap /\ "rsi_period" \in DOMAIN parameters
IsBollinger == ~IsVwap /\ "bb_period" \in DOMAIN parameters

\* The order of the registered session defaults: a session that starts
\* after it ends and wraps around midnight (__init__.py:27-30).
DefaultSessionOrder(params) ==
    /\ params.ib_start < params.ib_end
    /\ params.ib_end < params.session_end
    /\ params.session_end < params.session_start

GeneratorsInit ==
    \/ SmaInit
    \/ RsiInit
    \/ BollingerInit
    \/ VwapInit /\ DefaultSessionOrder(parameters)

GeneratorsNext ==
    \/ IsSma /\ SmaRowStep
    \/ IsRsi /\ RsiRowStep
    \/ IsBollinger /\ BollingerRowStep
    \/ IsVwap /\ VwapSessionStep

GeneratorsSpec == GeneratorsInit /\ [][GeneratorsNext]_vars

\* C29: for the SMA crossover and the RSI generator any two consecutive
\* emitted signals have opposite directions, and the timestamps of the
\* signals increase strictly (at most one signal per bar).
C29_SignalsAlternate ==
    (IsSma \/ IsRsi) =>
        \A n \in 1..(Len(signals) - 1) :
            /\ signals[n].signal # signals[n + 1].signal
            /\ signals[n].timestamp < signals[n + 1].timestamp

\* The RSI generator has finished with three signals, and a row below the
\* oversold threshold that the latch kept from signalling.
C29_Witness ==
    /\ IsRsi
    /\ pc = "done"
    /\ Len(signals) >= 3
    /\ \E k \in 1..Len(df) :
          /\ BelowOversold(k)
          /\ \A n \in 1..Len(signals) : signals[n].timestamp # k

\* The signals a generator of the model returns on a bar table, computed
\* row by row as its loop does.
RECURSIVE RowRun(_, _, _)
RowRun(col, params, k) ==
    IF k = 0 THEN [position |-> "None", signals |-> <<>>]
    ELSE LET before == RowRun(col, params, k - 1) IN
         IF "fast_period" \in DOMAIN params
         THEN LET crossover == Crossover(col, params, k) IN
              [position |-> before.position,
               signals  |-> IF crossover = Fin(F(1))
                            THEN Append(before.signals, SmaSignal(col, k, "LONG"))
                            ELSE IF crossover = Fin(F(-1))
                            THEN Append(before.signals, SmaSignal(col, k, "SHORT"))
                            ELSE before.signals]
         ELSE LET row == IF "rsi_period" \in DOMAIN params
                         THEN RsiRow(Rsi(col, params.rsi_period, k), before.position, params)
                         ELSE BollingerRow(col, k, before.position, params)
              IN  [position |-> row.position,
                   signals  |-> IF row.signal = "none" THEN before.signals
                                ELSE Append(before.signals, SmaSignal(col, k, row.signal))]

RECURSIVE SessionsRun(_, _, _, _)
SessionsRun(bars, params, days, n) ==
    IF n = 0 THEN <<>>
    ELSE SessionsRun(bars, params, days, n - 1)
         \o SessionSignals(DailyData(bars, params, days[n]), params)

GeneratedOn(bars) ==
    IF IsVwap
    THEN LET days == SortedSeq(SessionDates(bars, parameters))
         IN  SessionsRun(bars, parameters, days, Len(days))
    ELSE RowRun(bars, parameters, Len(bars)).signals

\* timestamp, direction and price of each signal
Core(sigs) ==
    [n \in 1..Len(sigs) |-> [timestamp |-> sigs[n].timestamp, signal |-> sigs[n].signal,
                             price |-> sigs[n].price]]

\* The index of bar k of df: its time for the VWAP generator, its row
\* number for the others.
BarTime(k) == IF IsVwap THEN df[k].ts ELSE k

SignalsUpTo(k) ==
    IF k = 0 THEN <<>>
    ELSE SelectSeq(signals, LAMBDA sig : sig.timestamp <= BarTime(k))

\* C30: no look-ahead.  The signals (timestamp, direction, price) a
\* finished generation has up to a bar are the signals the generator returns
\* on the bars up to that bar alone; so any two bar tables that agree up to
\* a bar yield the same signals up to it.
C30_NoLookAhead ==
    pc = "done" =>
        \A k \in 0..Len(df) :
            Core(SignalsUpTo(k)) = Core(GeneratedOn(SubSeq(df, 1, k)))

\* A finished generation with a signal, bars after the signal, and a later
\* signal that the bars up to the first one do not show.
C30_Witness ==
    /\ pc = "done"
    /\ Len(signals) >= 2
    /\ \E k \in 1..(Len(df) - 1) :
          /\ Len(SignalsUpTo(k)) = 1
          /\ Core(GeneratedOn(SubSeq(df, 1, k))) = Core(SignalsUpTo(k))

====
